---- MODULE Spec2Model ----
(***************************************************************************)
(* A model of the AML case pipeline of lavandowski-contraparte:            *)
(*   - get_chatgpt_response (gpt_utils.py) and format_export_payload       *)
(*     (functions.py): the narrative text, its sanitising, the error       *)
(*     markers, the score extraction and the score -> decision mapping;    *)
(*   - analyze_counterparties (functions.py): the top-3 selection and the  *)
(*     per-counterparty lookups.                                           *)
(*   - merchant_report, cardholder_report and generate_prompt              *)
(*     (functions.py): the report of a user and the prompt made from it;   *)
(*   - run_bot, analyze_user and send_payload (app.py): the batch over the *)
(*     flagged users, its counters and the submission of each payload.     *)
(* Texts are strings, handled character by character as Python does.       *)
(***************************************************************************)
EXTENDS Integers, Sequences, FiniteSets, TLC

VARIABLES
    pc,                 \* position of the modelled call sequence
    user_id,            \* analyze_user: user_data['user_id']
    business_validation,\* analyze_user: user_data.get("business_validation")
    llm,                \* what the completion service did: raised, or returned text
    gpt_analysis,       \* analyze_user: the text get_gpt_analysis returned
    export_payload,     \* the payload format_export_payload returned last
    first_payload,      \* the payload of the first call (before re-application)
    reruns,             \* how many times the payload was formatted again
    cash_in_list,       \* analyze_counterparties: argument
    cash_out_list,      \* analyze_counterparties: argument
    top_cash_in,        \* analyze_counterparties: local, the sorted top 3
    top_cash_out,       \* analyze_counterparties: local, the sorted top 3
    idx,                \* analyze_counterparties: loop index i (0-based)
    counterparty_analysis, \* analyze_counterparties: the result under construction
    lookups,            \* documents handed to analyze_document, in call order
    BDC_AVAILABLE,      \* whether bdc_utils could be imported
    bdc,                \* the identity-risk service: what it answers for each document
    db,                 \* the warehouse: what it answers to each query about the user
    building,           \* which report is under construction: its user type
    tables,             \* the report under construction: the frame of each source
    merchant_data,      \* analyze_user: what merchant_report returned
    report_data,        \* analyze_user: the report the prompt is composed from
    user_type,          \* analyze_user: "Merchant" or "Cardholder"
    alert_type,         \* analyze_user: user_data['alert_type']
    features,           \* analyze_user: user_data.get('features')
    betting_houses,     \* run_bot: what fetch_betting_houses returned
    pep_data,           \* run_bot: what fetch_pep_data returned
    prompt,             \* analyze_user: what generate_prompt returned
    flagged_users,      \* run_bot: what fetch_flagged_users returned
    cursor,             \* run_bot: the loop index i (0-based)
    analyzed_count,     \* run_bot: the counter of the summary
    suspicious_count,   \* run_bot: the counter of suspicious cases
    risk_scores,        \* run_bot: the scores shown, in order
    simulation_mode,    \* main: the checkbox "Simulação (não enviar para API)"
    response,           \* send_payload: what requests.post did last
    events              \* the steps taken so far, in order, each with its user

vars == <<pc, user_id, business_validation, llm, gpt_analysis, export_payload,
          first_payload, reruns, cash_in_list, cash_out_list, top_cash_in,
          top_cash_out, idx, counterparty_analysis, lookups,
          BDC_AVAILABLE, bdc, db, building, tables, merchant_data, report_data,
          user_type, alert_type, features, betting_houses, pep_data, prompt,
          flagged_users, cursor, analyzed_count, suspicious_count, risk_scores,
          simulation_mode, response, events>>

payloadVars == <<user_id, business_validation, llm, gpt_analysis, export_payload,
                 first_payload, reruns>>

cpVars == <<cash_in_list, cash_out_list, top_cash_in, top_cash_out, idx,
            counterparty_analysis, lookups, BDC_AVAILABLE, bdc>>

reportVars == <<db, building, tables, merchant_data, report_data, user_type>>

promptVars == <<alert_type, features, betting_houses, pep_data, prompt>>

botVars == <<flagged_users, cursor, analyzed_count, suspicious_count, risk_scores,
            simulation_mode, response, events>>

(***************************************************************************)
(* Bounds of the model.                                                    *)
(***************************************************************************)
MaxScore == 12      \* the numerals 0..MaxScore appear in score lines
MaxReruns == 1      \* re-applications of format_export_payload to its output
MaxLen == 4         \* records in a cash-in or cash-out list
MaxRows == 3        \* records in a list whose document columns vary
MaxHistory == 2     \* items in a PEPHistory or a SanctionsHistory
MaxLawsuits == 11   \* lawsuits in an answer of the service
MaxFaulty == 1      \* tables that fail or are empty at once (or all of them)
MaxPix == 2         \* rows of the pix_concentration table
MaxUsers == 2       \* flagged users in a batch
MaxDeep == 7        \* records in a list whose three highest amounts are set apart

(***************************************************************************)
(* Characters and strings (Python str operations).                         *)
(***************************************************************************)
None == "None"

UpperChars == "ABCDEFGHIJKLMNOPQRSTUVWXYZÇÃÉÍ"
LowerChars == "abcdefghijklmnopqrstuvwxyzçãéí"

CharAt(s, i) == SubSeq(s, i, i)

UpperSet == {CharAt(UpperChars, i) : i \in 1..Len(UpperChars)}

\* str.lower() of one character
LowerChar(c) ==
    IF c \in UpperSet
    THEN CharAt(LowerChars, CHOOSE i \in 1..Len(UpperChars) : CharAt(UpperChars, i) = c)
    ELSE c

\* str.lower(): character by character (halving keeps the evaluation shallow)
RECURSIVE lower(_)
lower(s) ==
    IF Len(s) = 0 THEN ""
    ELSE IF Len(s) = 1 THEN LowerChar(s)
    ELSE lower(SubSeq(s, 1, Len(s) \div 2)) \o lower(SubSeq(s, Len(s) \div 2 + 1, Len(s)))

\* needle in hay
Contains(hay, needle) ==
    \E i \in 1..(Len(hay) - Len(needle) + 1) :
        /\ CharAt(hay, i) = CharAt(needle, 1)
        /\ SubSeq(hay, i, i + Len(needle) - 1) = needle

\* hay.count(needle) for a needle that cannot overlap itself
Count(hay, needle) ==
    Cardinality({i \in 1..(Len(hay) - Len(needle) + 1) :
                    SubSeq(hay, i, i + Len(needle) - 1) = needle})

WhitespaceChars == {" ", "\n", "\t", "\r"}
DigitChars == {"0", "1", "2", "3", "4", "5", "6", "7", "8", "9"}
MarkdownChars == {"#", "*", "_"}

\* str.strip()
RECURSIVE lstrip(_)
lstrip(s) ==
    IF s # "" /\ CharAt(s, 1) \in WhitespaceChars THEN lstrip(SubSeq(s, 2, Len(s))) ELSE s
RECURSIVE rstrip(_)
rstrip(s) ==
    IF s # "" /\ CharAt(s, Len(s)) \in WhitespaceChars
    THEN rstrip(SubSeq(s, 1, Len(s) - 1)) ELSE s
strip(s) == rstrip(lstrip(s))

\* int(s) for a string of decimal digits
DigitValue(c) == CHOOSE d \in 0..9 : CharAt("0123456789", d + 1) = c
RECURSIVE int(_)
int(s) ==
    IF s = "" THEN 0
    ELSE 10 * int(SubSeq(s, 1, Len(s) - 1)) + DigitValue(CharAt(s, Len(s)))

\* str(n) for n >= 0
RECURSIVE str(_)
str(n) ==
    IF n < 10 THEN CharAt("0123456789", n + 1)
    ELSE str(n \div 10) \o CharAt("0123456789", (n % 10) + 1)

(***************************************************************************)
(* re: a backtracking matcher over the constructs the two patterns use.    *)
(* A pattern is a tree; Match gives, in the order Python's engine tries    *)
(* them, the ways the pattern matches at position p: <<end, group1>>.      *)
(***************************************************************************)
Lit(s) == [t |-> "lit", s |-> s]
Set(cs) == [t |-> "set", cs |-> cs]
Star(cs) == [t |-> "rep", cs |-> cs, min |-> 0]
Plus(cs) == [t |-> "rep", cs |-> cs, min |-> 1]
Opt(x) == [t |-> "opt", x |-> x]
Alt(xs) == [t |-> "alt", xs |-> xs]
Cat(xs) == [t |-> "cat", xs |-> xs]
Group(x) == [t |-> "grp", x |-> x]

LitAt(s, p, lit) == p + Len(lit) - 1 <= Len(s) /\ SubSeq(s, p, p + Len(lit) - 1) = lit

\* length of the run of characters of cs starting at p
RECURSIVE Run(_, _, _)
Run(s, p, cs) ==
    IF p <= Len(s) /\ CharAt(s, p) \in cs THEN 1 + Run(s, p + 1, cs) ELSE 0

RECURSIVE Match(_, _, _, _)
RECURSIVE MatchAlt(_, _, _, _, _)
RECURSIVE MatchCat(_, _, _, _)
RECURSIVE MatchEach(_, _, _, _)
Match(r, s, p, g) ==
    CASE r.t = "lit" -> IF LitAt(s, p, r.s) THEN << <<p + Len(r.s), g>> >> ELSE << >>
      [] r.t = "set" -> IF p <= Len(s) /\ CharAt(s, p) \in r.cs
                        THEN << <<p + 1, g>> >> ELSE << >>
      [] r.t = "rep" -> \* greedy: the longest run first, then shorter ones
            LET k == Run(s, p, r.cs)
            IN  [i \in 1..(k - r.min + 1) |-> <<p + k - i + 1, g>>]
      [] r.t = "opt" -> Match(r.x, s, p, g) \o << <<p, g>> >>
      [] r.t = "alt" -> MatchAlt(r.xs, 1, s, p, g)
      [] r.t = "cat" -> MatchCat(r.xs, s, << <<p, g>> >>, 1)
      [] r.t = "grp" -> LET ms == Match(r.x, s, p, g)
                        IN  [i \in 1..Len(ms) |-> <<ms[i][1], SubSeq(s, p, ms[i][1] - 1)>>]
MatchAlt(xs, i, s, p, g) ==
    IF i > Len(xs) THEN << >>
    ELSE Match(xs[i], s, p, g) \o MatchAlt(xs, i + 1, s, p, g)
\* the ways xs[i..] match after each of the partial matches ms, in order
MatchCat(xs, s, ms, i) ==
    IF i > Len(xs) THEN ms ELSE MatchEach(xs, s, ms, i)
MatchEach(xs, s, ms, i) ==
    IF ms = << >> THEN << >>
    ELSE MatchCat(xs, s, Match(xs[i], s, Head(ms)[1], Head(ms)[2]), i + 1)
         \o MatchEach(xs, s, Tail(ms), i)

\* re.search(pattern, s): the first way at the leftmost position that matches
re_search(r, s) ==
    LET starts == {p \in 1..(Len(s) + 1) : Match(r, s, p, "") # << >>}
    IN  IF starts = {} THEN [found |-> FALSE, group1 |-> "", start |-> 0]
        ELSE LET p == CHOOSE q \in starts : \A o \in starts : q <= o
             IN  [found |-> TRUE, group1 |-> Head(Match(r, s, p, ""))[2], start |-> p]

\* (\d+)(?:/|\s*de\s*)10
ScoreOutOfTen ==
    <<Group(Plus(DigitChars)),
      Alt(<<Lit("/"), Cat(<<Star(WhitespaceChars), Lit("de"), Star(WhitespaceChars)>>)>>),
      Lit("10")>>

\* (?:[Rr]isco\s+(?:de\s+[Ll]avagem\s+(?:de\s+)?[Dd]inheiro)?|[Cc]lassificação\s+(?:de\s+)?[Rr]isco):?\s*(\d+)(?:/|\s*de\s*)10
RiskScorePattern ==
    Cat(<<Alt(<<Cat(<<Set({"R", "r"}), Lit("isco"), Plus(WhitespaceChars),
                      Opt(Cat(<<Lit("de"), Plus(WhitespaceChars),
                                Set({"L", "l"}), Lit("avagem"), Plus(WhitespaceChars),
                                Opt(Cat(<<Lit("de"), Plus(WhitespaceChars)>>)),
                                Set({"D", "d"}), Lit("inheiro")>>))>>),
                Cat(<<Set({"C", "c"}), Lit("lassificação"), Plus(WhitespaceChars),
                      Opt(Cat(<<Lit("de"), Plus(WhitespaceChars)>>)),
                      Set({"R", "r"}), Lit("isco")>>)>>),
          Opt(Lit(":")), Star(WhitespaceChars)>> \o ScoreOutOfTen)

\* [Ss]core:?\s*(\d+)(?:/|\s*de\s*)10
AltScorePattern ==
    Cat(<<Set({"S", "s"}), Lit("core"), Opt(Lit(":")), Star(WhitespaceChars)>>
        \o ScoreOutOfTen)

(***************************************************************************)
(* format_export_payload (functions.py).                                   *)
(***************************************************************************)
\* re.sub(r'[#\*\_]', '', description)
\* a sanitize that leaves the underscore in: re.sub(r'[#\*]', '', description)
RECURSIVE sanitize_no_underscore(_)
sanitize_no_underscore(description) ==
    IF Len(description) = 0 THEN ""
    ELSE IF Len(description) = 1
         THEN (IF description \in {"#", "*"} THEN "" ELSE description)
    ELSE sanitize_no_underscore(SubSeq(description, 1, Len(description) \div 2))
         \o sanitize_no_underscore(SubSeq(description, Len(description) \div 2 + 1,
                                          Len(description)))

RECURSIVE sanitize(_)
sanitize(description) ==
    IF Len(description) = 0 THEN ""
    ELSE IF Len(description) = 1
         THEN (IF description \in MarkdownChars THEN "" ELSE description)
    ELSE sanitize(SubSeq(description, 1, Len(description) \div 2))
         \o sanitize(SubSeq(description, Len(description) \div 2 + 1, Len(description)))

error_indicators ==
    <<"Não consigo tankar este caso",
      "An error occurred",
      "muitas transações",
      "context_length_exceeded",
      "token limit",
      "chame um analista humano">>

\* indicator.lower() for indicator in error_indicators
lowered_indicators ==
    <<lower(error_indicators[1]), lower(error_indicators[2]), lower(error_indicators[3]),
      lower(error_indicators[4]), lower(error_indicators[5]), lower(error_indicators[6])>>

\* a has_error that compares case-sensitively: indicator in clean_description
has_error_case_sensitive(clean_description) ==
    \E i \in 1..Len(error_indicators) : Contains(clean_description, error_indicators[i])

\* any(indicator.lower() in clean_description.lower() for indicator in error_indicators)
has_error(clean_description) ==
    LET lowered == lower(clean_description)
    IN  \E i \in 1..Len(lowered_indicators) : Contains(lowered, lowered_indicators[i])

MonitoringNote == "\n\nOBS: Caso de médio risco que requer monitoramento contínuo."
MediumHighNote == "\n\nOBS: Caso de risco médio-alto que requer validação do negócio, sem necessidade de bloqueio temporário."

\* an extraction whose default is the extreme score instead of 0
extract_risk_score_default_10(clean_description) ==
    LET risk_score_match == re_search(RiskScorePattern, clean_description)
        alt_match == re_search(AltScorePattern, clean_description)
    IN  IF risk_score_match.found THEN int(risk_score_match.group1)
        ELSE IF alt_match.found THEN int(alt_match.group1)
        ELSE 10

\* the score the two searches give, 0 when neither matches
extract_risk_score(clean_description) ==
    LET risk_score_match == re_search(RiskScorePattern, clean_description)
        alt_match == re_search(AltScorePattern, clean_description)
    IN  IF risk_score_match.found THEN int(risk_score_match.group1)
        ELSE IF alt_match.found THEN int(alt_match.group1)
        ELSE 0

\* the chain with < where the code has <=
classify_strict(risk_score) ==
    IF risk_score < 5
    THEN [conclusion |-> "normal", priority |-> "high", guard |-> "", note |-> ""]
    ELSE IF risk_score < 6
    THEN [conclusion |-> "normal", priority |-> "high",
          guard |-> "Caso de médio risco", note |-> MonitoringNote]
    ELSE IF risk_score < 8
    THEN [conclusion |-> "suspicious", priority |-> "mid",
          guard |-> "Caso de risco médio-alto", note |-> MediumHighNote]
    ELSE IF risk_score < 9
    THEN [conclusion |-> "suspicious", priority |-> "high", guard |-> "", note |-> ""]
    ELSE [conclusion |-> "offense", priority |-> "high", guard |-> "", note |-> ""]

\* the chain with the priority of the 7-8 branch spelled "medium"
classify_medium(risk_score) ==
    IF risk_score <= 5
    THEN [conclusion |-> "normal", priority |-> "high", guard |-> "", note |-> ""]
    ELSE IF risk_score <= 6
    THEN [conclusion |-> "normal", priority |-> "high",
          guard |-> "Caso de médio risco", note |-> MonitoringNote]
    ELSE IF risk_score <= 8
    THEN [conclusion |-> "suspicious", priority |-> "medium",
          guard |-> "Caso de risco médio-alto", note |-> MediumHighNote]
    ELSE IF risk_score <= 9
    THEN [conclusion |-> "suspicious", priority |-> "high", guard |-> "", note |-> ""]
    ELSE [conclusion |-> "offense", priority |-> "high", guard |-> "", note |-> ""]

\* a chain that takes a score above 10 for no score
classify_in_range(risk_score) ==
    IF risk_score <= 5 \/ risk_score > 10
    THEN [conclusion |-> "normal", priority |-> "high", guard |-> "", note |-> ""]
    ELSE IF risk_score <= 6
    THEN [conclusion |-> "normal", priority |-> "high",
          guard |-> "Caso de médio risco", note |-> MonitoringNote]
    ELSE IF risk_score <= 8
    THEN [conclusion |-> "suspicious", priority |-> "mid",
          guard |-> "Caso de risco médio-alto", note |-> MediumHighNote]
    ELSE IF risk_score <= 9
    THEN [conclusion |-> "suspicious", priority |-> "high", guard |-> "", note |-> ""]
    ELSE [conclusion |-> "offense", priority |-> "high", guard |-> "", note |-> ""]

\* the if/elif chain on risk_score: conclusion, priority and the note's guard and text
classify(risk_score) ==
    IF risk_score <= 5
    THEN [conclusion |-> "normal", priority |-> "high", guard |-> "", note |-> ""]
    ELSE IF risk_score <= 6
    THEN [conclusion |-> "normal", priority |-> "high",
          guard |-> "Caso de médio risco", note |-> MonitoringNote]
    ELSE IF risk_score <= 8
    THEN [conclusion |-> "suspicious", priority |-> "mid",
          guard |-> "Caso de risco médio-alto", note |-> MediumHighNote]
    ELSE IF risk_score <= 9
    THEN [conclusion |-> "suspicious", priority |-> "high", guard |-> "", note |-> ""]
    ELSE [conclusion |-> "offense", priority |-> "high", guard |-> "", note |-> ""]

\* clean_description after the branch taken for the score
with_note(clean_description, c) ==
    IF c.note # "" /\ ~Contains(clean_description, c.guard)
    THEN clean_description \o c.note
    ELSE clean_description

\* an override without the exception for "offense"
override_any(clean_description, conclusion) ==
    IF Contains(lower(clean_description), "normalizar o caso")
    THEN "normal"
    ELSE conclusion

\* "normalizar o caso" in clean_description.lower() and conclusion != "offense"
override(clean_description, conclusion) ==
    IF Contains(lower(clean_description), "normalizar o caso") /\ conclusion # "offense"
    THEN "normal"
    ELSE conclusion

make_payload(uid, clean_description, conclusion, priority) ==
    [user_id |-> uid,
     description |-> clean_description,
     analysis_type |-> "manual",
     conclusion |-> conclusion,
     priority |-> priority,
     automatic_pipeline |-> TRUE,
     offense_group |-> "illegal_activity",
     offense_name |-> "money_laundering",
     related_analyses |-> << >>]

\* a format_export_payload whose override resets the priority as well
format_export_payload_override_resets(uid, description, bv) ==
    LET clean_description == sanitize(description)
    IN  IF has_error(clean_description)
        THEN make_payload(uid, clean_description, "", "high")
        ELSE LET risk_score == extract_risk_score(clean_description)
                 c == classify(risk_score)
                 noted == with_note(clean_description, c)
                 conclusion == override(noted, c.conclusion)
             IN  make_payload(uid, noted, conclusion,
                              IF conclusion # c.conclusion THEN "high" ELSE c.priority)

\* a format_export_payload that leaves the conclusion of a user under
\* business validation to the analyst
format_export_payload_validated(uid, description, bv) ==
    LET clean_description == sanitize(description)
    IN  IF has_error(clean_description) \/ bv
        THEN make_payload(uid, clean_description, "", "high")
        ELSE LET risk_score == extract_risk_score(clean_description)
                 c == classify(risk_score)
                 noted == with_note(clean_description, c)
             IN  make_payload(uid, noted, override(noted, c.conclusion), c.priority)

format_export_payload(uid, description, bv) ==
    LET clean_description == sanitize(description)
    IN  IF has_error(clean_description)
        THEN make_payload(uid, clean_description, "", "high")
        ELSE LET risk_score == extract_risk_score(clean_description)
                 c == classify(risk_score)
                 noted == with_note(clean_description, c)
             IN  make_payload(uid, noted, override(noted, c.conclusion), c.priority)

(***************************************************************************)
(* get_chatgpt_response (gpt_utils.py).                                    *)
(***************************************************************************)
ContextLengthReply == "Opa! Não consigo tankar este caso, pois há muitas transações. Chame um analista humano - ou reptiliano - para resolver"

\* a get_chatgpt_response whose except branch returns the bare message
get_chatgpt_response_bare(outcome) ==
    IF ~outcome.raised THEN strip(outcome.text)
    ELSE IF Contains(lower(outcome.text), "context_length_exceeded")
         THEN ContextLengthReply
         ELSE outcome.text

\* outcome.text: the content returned, or str(e) when the call raised
get_chatgpt_response(outcome) ==
    IF ~outcome.raised THEN strip(outcome.text)
    ELSE IF Contains(lower(outcome.text), "context_length_exceeded")
         THEN ContextLengthReply
         ELSE "An error occurred: " \o outcome.text

(***************************************************************************)
(* What the completion service may do.  A returned text is                 *)
(* pre \o score line \o post; the score line is a prefix, a numeral and a  *)
(* suffix, or is missing (n = NoScore).                                    *)
(***************************************************************************)
NoScore == -1
MandatedPrefix == "Risco de Lavagem de Dinheiro: "
ScoreFormats ==
    {<<MandatedPrefix, "/10">>,
     <<"**Classificação de Risco:** ", " de 10">>,
     <<"Score: ", "/10">>}
PreTexts ==
    {"", "### Nível de risco: 9/10\n", "Caso de médio risco. ",
     "Caso de risco médio-alto. ", "Sugiro NORMALIZAR o caso. "}
PostTexts ==
    {"", "**\n", "\nRecomendo _normalizar o caso_.", "\nHá Muitas Transações.",
     "\nchame um analista humano", "\ncontext_length_exceeded"}

\* str(e) of the exceptions the completion call may raise
LlmErrors ==
    {"Error code: 400 - context_length_exceeded", "Connection error.",
     "Rate limit: Risco 7/10, normalizar o caso", ""}

LlmOutcomes ==
    {[raised |-> FALSE, prefix |-> f[1], n |-> k, text |-> a \o f[1] \o str(k) \o f[2] \o b] :
        a \in PreTexts, f \in ScoreFormats, k \in 0..MaxScore, b \in PostTexts}
    \cup {[raised |-> FALSE, prefix |-> "", n |-> NoScore, text |-> a \o b] :
        a \in PreTexts, b \in PostTexts}
    \cup {[raised |-> TRUE, prefix |-> "", n |-> NoScore, text |-> e] : e \in LlmErrors}

NoPayload == [conclusion |-> None]

\* fetch_flagged_users: the single operator-chosen user is flagged with
\* business_validation True, the rows of the query with False
FlaggedUsers ==
    {[user_id |-> 1, business_validation |-> TRUE],
     [user_id |-> 2, business_validation |-> FALSE]}

(***************************************************************************)
(* The state outside analyze_user's report and prompt and outside run_bot: *)
(* no report was built, no prompt composed, no batch started.              *)
(***************************************************************************)
\* an optional DataFrame argument left at its default None
NoFrame == [given |-> FALSE]

NoReport ==
    /\ db = << >>
    /\ building = None
    /\ tables = << >>
    /\ merchant_data = << >>
    /\ report_data = << >>
    /\ user_type = None

NoPrompt ==
    /\ alert_type = ""
    /\ features = None
    /\ betting_houses = NoFrame
    /\ pep_data = NoFrame
    /\ prompt = << >>

\* no request was posted yet
NoResponse == [raised |-> FALSE, status_code |-> 0, text |-> ""]

NoBatch ==
    /\ flagged_users = << >>
    /\ cursor = 0
    /\ analyzed_count = 0
    /\ suspicious_count = 0
    /\ risk_scores = << >>
    /\ simulation_mode = FALSE
    /\ response = NoResponse
    /\ events = << >>

(***************************************************************************)
(* SpecPayload: analyze_user from the completion call on, followed by      *)
(* re-applications of format_export_payload to the description it made.    *)
(***************************************************************************)
InitPayload ==
    /\ pc = "prompted"
    /\ \E user_data \in FlaggedUsers :
        /\ user_id = user_data.user_id
        /\ business_validation = user_data.business_validation
    /\ llm = [raised |-> FALSE, prefix |-> "", n |-> NoScore, text |-> ""]
    /\ gpt_analysis = ""
    /\ export_payload = NoPayload
    /\ first_payload = NoPayload
    /\ reruns = 0
    /\ cash_in_list = << >>
    /\ cash_out_list = << >>
    /\ top_cash_in = << >>
    /\ top_cash_out = << >>
    /\ idx = 0
    /\ counterparty_analysis = None
    /\ lookups = << >>
    /\ BDC_AVAILABLE = TRUE
    /\ bdc = << >>
    /\ NoReport /\ NoPrompt /\ NoBatch

\* gpt_analysis = get_gpt_analysis(prompt)
GetGptAnalysis ==
    /\ pc = "prompted"
    /\ \E outcome \in LlmOutcomes :
        /\ llm' = outcome
        /\ gpt_analysis' = get_chatgpt_response(outcome)
    /\ pc' = "analysed"
    /\ UNCHANGED <<user_id, business_validation, export_payload, first_payload, reruns>>
    /\ UNCHANGED <<cpVars, reportVars, promptVars, botVars>>

\* export_payload = format_export_payload(user_id, gpt_analysis, business_validation)
FormatExportPayload ==
    /\ pc = "analysed"
    /\ export_payload' = format_export_payload(user_id, gpt_analysis, business_validation)
    /\ first_payload' = export_payload'
    /\ pc' = "formatted"
    /\ UNCHANGED <<user_id, business_validation, llm, gpt_analysis, reruns>>
    /\ UNCHANGED <<cpVars, reportVars, promptVars, botVars>>

\* format_export_payload applied to the description of its own payload
Reformat ==
    /\ pc = "formatted"
    /\ reruns < MaxReruns
    /\ export_payload' =
          format_export_payload(user_id, export_payload.description, business_validation)
    /\ reruns' = reruns + 1
    /\ UNCHANGED <<pc, user_id, business_validation, llm, gpt_analysis, first_payload>>
    /\ UNCHANGED <<cpVars, reportVars, promptVars, botVars>>

NextPayload == GetGptAnalysis \/ FormatExportPayload \/ Reformat

SpecPayload == InitPayload /\ [][NextPayload]_vars

(***************************************************************************)
(* analyze_counterparties (functions.py) and analyze_document (bdc_utils). *)
(* A dict is a record, the empty dict and the empty list are << >>, a null  *)
(* string is None and a null pix_amount is NullAmount.                     *)
(***************************************************************************)
NullAmount == -1

HasKey(d, k) == k \in DOMAIN d
\* Python truth value of a string or null, and of a dict or list
TruthyStr(v) == v \notin {None, ""}
Truthy(v) == v # << >>
\* d.get(k, default)
Get(d, k, default) == IF HasKey(d, k) THEN d[k] ELSE default

possible_fields ==
    <<"party_document_number",
      "gateway_document_number", "document_number", "cpf", "cnpj",
      "counterparty_document", "payer_document", "receiver_document",
      "origin_document", "destination_document">>

\* the first field of possible_fields the transaction has with a true value
extract_document_from_transaction(transaction) ==
    LET hits == {i \in 1..Len(possible_fields) :
                    /\ HasKey(transaction, possible_fields[i])
                    /\ TruthyStr(transaction[possible_fields[i]])}
    IN  IF hits = {} THEN None
        ELSE strip(transaction[possible_fields[CHOOSE i \in hits : \A j \in hits : i <= j]])

\* re.sub(r'\D', '', document)
RECURSIVE sanitize_document(_)
sanitize_document(document) ==
    IF document = "" THEN ""
    ELSE (IF CharAt(document, 1) \in DigitChars THEN CharAt(document, 1) ELSE "")
         \o sanitize_document(SubSeq(document, 2, Len(document)))

\* What the service does with a request: it fails with a RequestException
\* (fetch_bdc_data returns None), it answers JSON that is no mapping
\* (analyze_document raises on result.get), or it answers a mapping.
RequestError == [kind |-> "RequestError"]
Malformed == [kind |-> "Malformed"]
Json(body) == [kind |-> "Json", body |-> body]

\* analyze_document(document): it raises, or returns a result
analyze_document(document, service) ==
    LET sanitized_doc == sanitize_document(document)
        answer == service[sanitized_doc]
    IN  IF answer.kind = "Malformed" THEN [raised |-> TRUE]
        ELSE IF answer.kind = "RequestError" \/ ~Truthy(answer.body)
             THEN [raised |-> FALSE, result |-> [Result |-> << >>]]
        ELSE [raised |-> FALSE, result |-> answer.body]

\* processes[:10]
Take(seq, n) == SubSeq(seq, 1, IF Len(seq) < n THEN Len(seq) ELSE n)

process_info(process) ==
    [process_number |-> Get(process, "Number", ""),
     court |-> Get(process, "CourtName", ""),
     subject |-> Get(process, "MainSubject", ""),
     type |-> Get(process, "Type", ""),
     court_level |-> Get(process, "CourtLevel", ""),
     court_type |-> Get(process, "CourtType", ""),
     district |-> Get(process, "CourtDistrict", "")]

pep_entry(pep) ==
    [type |-> "PEP", description |-> Get(pep, "Description", ""), source |-> "PEP Database"]

sanction_entry(sanction) ==
    [type |-> Get(sanction, "Type", ""),
     standardized_type |-> Get(sanction, "StandardizedSanctionType", ""),
     source |-> Get(sanction, "Source", ""),
     description |-> IF Truthy(Get(sanction, "Details", << >>))
                     THEN Get(sanction.Details, "WarrantDescription", "") ELSE "",
     match_rate |-> Get(sanction, "MatchRate", 0)]

CurrentPep ==
    [type |-> "Current PEP", description |-> "Currently a Politically Exposed Person",
     source |-> "PEP Database"]
CurrentSanction ==
    [type |-> "Current Sanction", description |-> "Currently under sanctions",
     source |-> "Sanctions Database"]

process_infos(processes) == [i \in 1..Len(processes) |-> process_info(processes[i])]
pep_entries(pep_history) == [i \in 1..Len(pep_history) |-> pep_entry(pep_history[i])]
sanction_entries(sanctions_history) ==
    [i \in 1..Len(sanctions_history) |-> sanction_entry(sanctions_history[i])]
IsFullMatch_above_80(sanction) == Get(sanction, "MatchRate", 0) >= 80

\* match_rate == 100
IsFullMatch(sanction) == Get(sanction, "MatchRate", 0) = 100

risk_level_processes_first(has_sanctions, has_processes, processes) ==
    IF has_processes /\ Len(processes) > 3 THEN "MÉDIO"
    ELSE IF has_sanctions THEN "ALTO"
    ELSE IF has_processes THEN "BAIXO-MÉDIO"
    ELSE "BAIXO"

risk_level(has_sanctions, has_processes, processes) ==
    IF has_sanctions THEN "ALTO"
    ELSE IF has_processes /\ Len(processes) > 3 THEN "MÉDIO"
    ELSE IF has_processes THEN "BAIXO-MÉDIO"
    ELSE "BAIXO"

NoAnalysis ==
    [document |-> None, name |-> None, processes |-> << >>, sanctions |-> << >>,
     has_processes |-> FALSE, has_sanctions |-> FALSE, risk_level |-> "BAIXO"]

extract_processes_and_sanctions(bdc_result) ==
    IF ~Truthy(bdc_result) \/ ~HasKey(bdc_result, "Result") THEN NoAnalysis
    ELSE IF ~Truthy(bdc_result.Result) THEN NoAnalysis
    ELSE
    LET person_data == bdc_result.Result[1]
        basic_data == Get(person_data, "BasicData", << >>)
        processes_data == Get(person_data, "Processes", << >>)
        processes == IF Truthy(processes_data) THEN Get(processes_data, "Lawsuits", << >>)
                     ELSE << >>
        kyc_data == Get(person_data, "KycData", << >>)
        pep_history == IF Truthy(kyc_data) THEN Get(kyc_data, "PEPHistory", << >>) ELSE << >>
        sanctions_history ==
            IF Truthy(kyc_data) THEN Get(kyc_data, "SanctionsHistory", << >>) ELSE << >>
        sanctions ==
            pep_entries(pep_history)
            \o sanction_entries(SelectSeq(sanctions_history, IsFullMatch))
            \o (IF Truthy(kyc_data) /\ Get(kyc_data, "IsCurrentlyPEP", FALSE)
                THEN <<CurrentPep>> ELSE << >>)
            \o (IF Truthy(kyc_data) /\ Get(kyc_data, "IsCurrentlySanctioned", FALSE)
                THEN <<CurrentSanction>> ELSE << >>)
        has_processes == Truthy(processes)
        has_sanctions == Truthy(sanctions)
        kept == IF has_processes THEN process_infos(Take(processes, 10)) ELSE << >>
    IN  [document |-> IF Truthy(basic_data) THEN Get(basic_data, "TaxIdNumber", "") ELSE None,
         name |-> IF Truthy(basic_data) THEN Get(basic_data, "Name", "") ELSE None,
         processes |-> kept,
         sanctions |-> sanctions,
         has_processes |-> has_processes,
         has_sanctions |-> has_sanctions,
         risk_level |-> risk_level(has_sanctions, has_processes, kept)]

\* float(x.get('pix_amount', 0)): float(None) raises TypeError
SortKey(x) == Get(x, "pix_amount", 0)
KeysAreNumbers(list) == \A i \in 1..Len(list) : SortKey(list[i]) # NullAmount

\* sorted(list, key=..., reverse=True): descending, equal keys in their original order
InsertDesc(x, sorted) ==
    LET before == {i \in 1..Len(sorted) : SortKey(sorted[i]) >= SortKey(x)}
        k == Cardinality(before)
    IN  SubSeq(sorted, 1, k) \o <<x>> \o SubSeq(sorted, k + 1, Len(sorted))
RECURSIVE SortedDesc(_)
SortedDesc(list) ==
    IF list = << >> THEN << >>
    ELSE InsertDesc(list[Len(list)], SortedDesc(SubSeq(list, 1, Len(list) - 1)))

top3_unsorted(list) == Take(list, 3)

\* a selection of the 3 highest rows among those that have a document
top3_documented(list) ==
    Take(SelectSeq(SortedDesc(list),
                   LAMBDA row : TruthyStr(extract_document_from_transaction(row))), 3)

\* sorted(...)[:3]
top3(list) == Take(SortedDesc(list), 3)

EmptySummary ==
    [total_counterparties_analyzed |-> 0,
     counterparties_with_processes |-> 0,
     counterparties_with_sanctions |-> 0,
     high_risk_counterparties |-> 0]

updated_summary_alto_only(summary, analysis) ==
    [total_counterparties_analyzed |-> summary.total_counterparties_analyzed + 1,
     counterparties_with_processes |->
         summary.counterparties_with_processes + (IF analysis.has_processes THEN 1 ELSE 0),
     counterparties_with_sanctions |->
         summary.counterparties_with_sanctions + (IF analysis.has_sanctions THEN 1 ELSE 0),
     high_risk_counterparties |->
         summary.high_risk_counterparties + (IF analysis.risk_level = "ALTO" THEN 1 ELSE 0)]

\* the summary after one more analysis
updated_summary(summary, analysis) ==
    [total_counterparties_analyzed |-> summary.total_counterparties_analyzed + 1,
     counterparties_with_processes |->
         summary.counterparties_with_processes + (IF analysis.has_processes THEN 1 ELSE 0),
     counterparties_with_sanctions |->
         summary.counterparties_with_sanctions + (IF analysis.has_sanctions THEN 1 ELSE 0),
     high_risk_counterparties |->
         summary.high_risk_counterparties
         + (IF analysis.risk_level \in {"ALTO", "MÉDIO"} THEN 1 ELSE 0)]

\* the analysis of one transaction, with the fields the loop body adds
profile(analysis, transaction, transaction_type) ==
    [document |-> analysis.document, name |-> analysis.name,
     processes |-> analysis.processes, sanctions |-> analysis.sanctions,
     has_processes |-> analysis.has_processes, has_sanctions |-> analysis.has_sanctions,
     risk_level |-> analysis.risk_level,
     transaction_amount |-> Get(transaction, "pix_amount", 0),
     transaction_date |-> Get(transaction, "created_at", ""),
     transaction_type |-> transaction_type,
     party_name |-> Get(transaction, "party", "")]

\* a loop body that counts a row without a document as an empty analysis
loop_body_counts_undocumented(ca, looked, transaction, transaction_type, key, service) ==
    LET document == extract_document_from_transaction(transaction)
    IN  IF ~TruthyStr(document)
        THEN LET analysis == profile(NoAnalysis, transaction, transaction_type)
             IN  [ca |-> [ca EXCEPT ![key] = Append(@, analysis),
                                    !.summary = updated_summary(@, analysis)],
                  lookups |-> looked]
        ELSE LET called == analyze_document(document, service)
             IN  IF called.raised
                 THEN [ca |-> ca, lookups |-> Append(looked, document)]
                 ELSE LET analysis == profile(extract_processes_and_sanctions(called.result),
                                              transaction, transaction_type)
                      IN  [ca |-> [ca EXCEPT ![key] = Append(@, analysis),
                                             !.summary = updated_summary(@, analysis)],
                           lookups |-> Append(looked, document)]

\* one pass of a "for i, transaction in enumerate(top_...)" loop body:
\* the result and the documents looked up after it
loop_body(ca, looked, transaction, transaction_type, key, service) ==
    LET document == extract_document_from_transaction(transaction)
    IN  IF ~TruthyStr(document) THEN [ca |-> ca, lookups |-> looked]
        ELSE LET called == analyze_document(document, service)
             IN  IF called.raised
                 THEN [ca |-> ca, lookups |-> Append(looked, document)]
                 ELSE LET analysis == profile(extract_processes_and_sanctions(called.result),
                                              transaction, transaction_type)
                      IN  [ca |-> [ca EXCEPT ![key] = Append(@, analysis),
                                             !.summary = updated_summary(@, analysis)],
                           lookups |-> Append(looked, document)]

(***************************************************************************)
(* The inputs of analyze_counterparties: the lists merchant_report and     *)
(* cardholder_report build from the pix_concentration rows, and the        *)
(* answers of the service.                                                 *)
(***************************************************************************)
\* the pix_amount of a row: null, or a sum of PIX values
Amounts == {NullAmount, 1, 2}
Document == " 11"
\* the document columns of a row: none, or party_document_number
DocumentColumns == {<< >>, [party_document_number |-> Document]}

PartyName(i) == "P" \o str(i)
Row(i, amount, columns) ==
    [k \in {"party", "pix_amount"} \cup DOMAIN columns |->
        IF k = "party" THEN PartyName(i)
        ELSE IF k = "pix_amount" THEN amount
        ELSE columns[k]]

RowLists(n) ==
    {[i \in 1..n |-> Row(i, f[i][1], f[i][2])] : f \in [1..n -> Amounts \X DocumentColumns]}
TransactionLists == UNION {RowLists(n) : n \in 0..MaxLen}
ShortLists == {<< >>, <<Row(1, 2, [party_document_number |-> Document])>>}
\* long lists: the rows 2, 4 and 6 have the highest amount and vary in their
\* document column, every other row has a lower amount and a document
DeepLists ==
    {[i \in 1..MaxDeep |->
        IF i \in {2, 4, 6} THEN Row(i, 2, f[i])
        ELSE Row(i, 1, [party_document_number |-> Document])] :
        f \in [{2, 4, 6} -> DocumentColumns]}

Lawsuit(n) == [Number |-> str(n), CourtName |-> "TJSP", MainSubject |-> "Cobrança"]
Person ==
    [BasicData |-> [TaxIdNumber |-> "11", Name |-> "Fulano"],
     Processes |-> [Lawsuits |-> <<Lawsuit(1)>>],
     KycData |-> [PEPHistory |-> << >>,
                  SanctionsHistory |-> <<[Type |-> "Arrest", MatchRate |-> 100]>>,
                  IsCurrentlyPEP |-> FALSE, IsCurrentlySanctioned |-> FALSE]]
BdcAnswers == {RequestError, Malformed, Json([Result |-> <<Person>>])}
BdcServices == [{sanitize_document(Document)} -> BdcAnswers]
Unreachable == [d \in {sanitize_document(Document)} |-> RequestError]

NewAnalysis(enabled) ==
    [top_cash_in_analysis |-> << >>,
     top_cash_out_analysis |-> << >>,
     analysis_enabled |-> enabled,
     summary |-> EmptySummary]

(***************************************************************************)
(* analyze_counterparties, one step per external call.                     *)
(***************************************************************************)
InitCounterparty ==
    /\ pc = "called"
    /\ user_id = 1
    /\ business_validation = FALSE
    /\ llm = [raised |-> FALSE, prefix |-> "", n |-> NoScore, text |-> ""]
    /\ gpt_analysis = ""
    /\ export_payload = NoPayload
    /\ first_payload = NoPayload
    /\ reruns = 0
    /\ \E long \in TransactionLists \cup DeepLists, short \in ShortLists :
          \/ cash_in_list = long /\ cash_out_list = short
          \/ cash_in_list = short /\ cash_out_list = long
    /\ top_cash_in = << >>
    /\ top_cash_out = << >>
    /\ idx = 0
    /\ counterparty_analysis = None
    /\ lookups = << >>
    /\ \/ BDC_AVAILABLE = TRUE /\ bdc \in BdcServices
       \/ BDC_AVAILABLE = FALSE /\ bdc = Unreachable
    /\ NoReport /\ NoPrompt /\ NoBatch

\* lines 158-172 and 337: the empty result, the early return without the
\* service, and the sort of the cash-in list, which raises on a null amount
SortCashIn ==
    /\ pc = "called"
    /\ counterparty_analysis' = NewAnalysis(BDC_AVAILABLE)
    /\ IF ~BDC_AVAILABLE
       THEN pc' = "returned" /\ UNCHANGED top_cash_in
       ELSE IF KeysAreNumbers(cash_in_list)
            THEN pc' = "cash_in" /\ top_cash_in' = top3(cash_in_list)
            ELSE pc' = "raised" /\ UNCHANGED top_cash_in
    /\ idx' = 0
    /\ UNCHANGED <<payloadVars, reportVars, promptVars, botVars, cash_in_list, cash_out_list, top_cash_out, lookups,
                   BDC_AVAILABLE, bdc>>

\* lines 340-372: one pass of the cash-in loop
AnalyzeCashIn ==
    /\ pc = "cash_in"
    /\ idx < Len(top_cash_in)
    /\ LET after == loop_body(counterparty_analysis, lookups, top_cash_in[idx + 1],
                              "CASH_IN", "top_cash_in_analysis", bdc)
       IN  /\ counterparty_analysis' = after.ca
           /\ lookups' = after.lookups
    /\ idx' = idx + 1
    /\ UNCHANGED <<pc, payloadVars, reportVars, promptVars, botVars, cash_in_list, cash_out_list, top_cash_in,
                   top_cash_out, BDC_AVAILABLE, bdc>>

\* line 375: the sort of the cash-out list, after the cash-in loop
SortCashOut ==
    /\ pc = "cash_in"
    /\ idx = Len(top_cash_in)
    /\ IF KeysAreNumbers(cash_out_list)
       THEN pc' = "cash_out" /\ top_cash_out' = top3(cash_out_list)
       ELSE pc' = "raised" /\ UNCHANGED top_cash_out
    /\ idx' = 0
    /\ UNCHANGED <<payloadVars, reportVars, promptVars, botVars, cash_in_list, cash_out_list, top_cash_in,
                   counterparty_analysis, lookups, BDC_AVAILABLE, bdc>>

\* lines 378-410: one pass of the cash-out loop
AnalyzeCashOut ==
    /\ pc = "cash_out"
    /\ idx < Len(top_cash_out)
    /\ LET after == loop_body(counterparty_analysis, lookups, top_cash_out[idx + 1],
                              "CASH_OUT", "top_cash_out_analysis", bdc)
       IN  /\ counterparty_analysis' = after.ca
           /\ lookups' = after.lookups
    /\ idx' = idx + 1
    /\ UNCHANGED <<pc, payloadVars, reportVars, promptVars, botVars, cash_in_list, cash_out_list, top_cash_in,
                   top_cash_out, BDC_AVAILABLE, bdc>>

\* line 413: return counterparty_analysis
ReturnAnalysis ==
    /\ pc = "cash_out"
    /\ idx = Len(top_cash_out)
    /\ pc' = "returned"
    /\ UNCHANGED <<payloadVars, cpVars, reportVars, promptVars, botVars>>

NextCounterparty ==
    \/ SortCashIn
    \/ AnalyzeCashIn
    \/ SortCashOut
    \/ AnalyzeCashOut
    \/ ReturnAnalysis

SpecCounterparty == InitCounterparty /\ [][NextCounterparty]_vars

(***************************************************************************)
(* SpecExtract: analyze_counterparties over the answers of the service.    *)
(* One cash-in and one cash-out row carry the same document; the answer    *)
(* for it varies in its lawsuits, its PEP and sanctions histories and its  *)
(* two current flags.                                                      *)
(***************************************************************************)
MatchRates == {100, 80}
PepItem == [Description |-> "Vereador"]
\* a SanctionsHistory item: with a MatchRate, or without the key
SanctionItems ==
    {[Type |-> "Arrest", Source |-> "CNJ", MatchRate |-> r] : r \in MatchRates}
    \cup {[Type |-> "Arrest", Source |-> "CNJ"]}

SeqsUpTo(S, n) == UNION {[1..k -> S] : k \in 0..n}

KycDatas ==
    {<< >>} \cup
    [PEPHistory : SeqsUpTo({PepItem}, MaxHistory),
     SanctionsHistory : SeqsUpTo(SanctionItems, MaxHistory),
     IsCurrentlyPEP : BOOLEAN,
     IsCurrentlySanctioned : BOOLEAN]

Lawsuits(n) == [i \in 1..n |-> Lawsuit(i)]
Persons ==
    {[BasicData |-> [TaxIdNumber |-> "11", Name |-> "Fulano"],
      Processes |-> [Lawsuits |-> Lawsuits(n)],
      KycData |-> kyc] : n \in 0..MaxLawsuits, kyc \in KycDatas}

DocumentedRow == Row(1, 2, [party_document_number |-> Document])

InitExtract ==
    /\ pc = "called"
    /\ user_id = 1
    /\ business_validation = FALSE
    /\ llm = [raised |-> FALSE, prefix |-> "", n |-> NoScore, text |-> ""]
    /\ gpt_analysis = ""
    /\ export_payload = NoPayload
    /\ first_payload = NoPayload
    /\ reruns = 0
    /\ cash_in_list = <<DocumentedRow>>
    /\ cash_out_list = <<DocumentedRow>>
    /\ top_cash_in = << >>
    /\ top_cash_out = << >>
    /\ idx = 0
    /\ counterparty_analysis = None
    /\ lookups = << >>
    /\ BDC_AVAILABLE = TRUE
    /\ \E person \in Persons :
          bdc = [d \in {sanitize_document(Document)} |-> Json([Result |-> <<person>>])]
    /\ NoReport /\ NoPrompt /\ NoBatch

SpecExtract == InitExtract /\ [][NextCounterparty]_vars

(***************************************************************************)
(* SpecDocuments: analyze_counterparties over the document columns of the  *)
(* rows and the failures of the service.  The rows have equal amounts; two *)
(* documents are known to the service, each with its own answer.           *)
(***************************************************************************)
OtherDocument == "22 "
\* the document columns of a row: none, an empty one, a null one, an empty
\* one followed by a filled one, two filled ones
DocumentShapes ==
    {<< >>,
     [party_document_number |-> ""],
     [party_document_number |-> None],
     [party_document_number |-> "", cpf |-> OtherDocument],
     [party_document_number |-> Document, cpf |-> OtherDocument]}

ShapedLists(n) == {[i \in 1..n |-> Row(i, 1, f[i])] : f \in [1..n -> DocumentShapes]}
DocumentLists == UNION {ShapedLists(n) : n \in 0..MaxRows}

PersonSued(n) ==
    [BasicData |-> [TaxIdNumber |-> "22", Name |-> "Beltrano"],
     Processes |-> [Lawsuits |-> Lawsuits(n)],
     KycData |-> << >>]
FailingAnswers == {RequestError, Malformed}
DocumentAnswers ==
    FailingAnswers \cup
    {Json([Result |-> <<Person>>]), Json([Result |-> <<PersonSued(4)>>])}
KnownDocuments == {sanitize_document(Document), sanitize_document(OtherDocument)}
DocumentServices == [KnownDocuments -> DocumentAnswers]
UnreachableService == [d \in KnownDocuments |-> RequestError]

InitDocuments ==
    /\ pc = "called"
    /\ user_id = 1
    /\ business_validation = FALSE
    /\ llm = [raised |-> FALSE, prefix |-> "", n |-> NoScore, text |-> ""]
    /\ gpt_analysis = ""
    /\ export_payload = NoPayload
    /\ first_payload = NoPayload
    /\ reruns = 0
    /\ \E long \in DocumentLists, short \in ShortLists :
          \/ cash_in_list = long /\ cash_out_list = short
          \/ cash_in_list = short /\ cash_out_list = long
    /\ top_cash_in = << >>
    /\ top_cash_out = << >>
    /\ idx = 0
    /\ counterparty_analysis = None
    /\ lookups = << >>
    /\ \/ BDC_AVAILABLE = TRUE /\ bdc \in DocumentServices
       \/ BDC_AVAILABLE = FALSE /\ bdc = UnreachableService
    /\ NoReport /\ NoPrompt /\ NoBatch

SpecDocuments == InitDocuments /\ [][NextCounterparty]_vars

(***************************************************************************)
(* merchant_report and cardholder_report.  A DataFrame is the sequence of  *)
(* its rows (to_dict(orient='records')), the empty one is << >>; the       *)
(* amounts of the model are numbers already, which convert_decimals and    *)
(* round(2) leave as they are.                                             *)
(***************************************************************************)
\* what the warehouse does with a query: it raises, or it returns rows
QueryError == [raised |-> TRUE]
Rows(rows) == [raised |-> FALSE, rows |-> rows]

\* lines 59-66: the frame of the rows, the empty frame after any exception
execute_query(answer) == IF answer.raised THEN << >> ELSE answer.rows

\* the table or view each local of merchant_report is fetched from
MerchantQueries ==
    [merchant_info |-> "merchant_report",
     issuing_concentration |-> "lavandowski_issuing_payments_data",
     pix_concentration |-> "pix_concentration",
     transaction_concentration |-> "cardholder_concentration",
     offense_history |-> "lavandowski_offense_analysis_data",
     products_online |-> "lavandowski_online_store_data",
     contacts |-> "lavandowski_phonecast_data",
     devices |-> "user_device",
     lawsuit_data |-> "fetch_lawsuit_data",
     denied_transactions |-> "fetch_denied_transactions",
     business_data |-> "fetch_business_data",
     prison_transactions |-> "fetch_prison_transactions",
     sanctions_history |-> "fetch_sanctions_history",
     denied_pix_transactions |-> "fetch_denied_pix_transactions",
     bets_pix_transfers |-> "fetch_bets_pix_transfers"]

\* the table or view each local of cardholder_report is fetched from
CardholderQueries ==
    [cardholder_info |-> "cardholder_report",
     issuing_concentration |-> "issuing_concentration",
     pix_concentration |-> "pix_concentration",
     offense_history |-> "lavandowski_offense_analysis_data",
     contacts |-> "lavandowski_phonecast_data",
     devices |-> "user_device",
     lawsuit_data |-> "fetch_lawsuit_data",
     business_data |-> "fetch_business_data",
     prison_transactions |-> "fetch_prison_transactions",
     sanctions_history |-> "fetch_sanctions_history",
     denied_pix_transactions |-> "fetch_denied_pix_transactions",
     bets_pix_transfers |-> "fetch_bets_pix_transfers"]

Queries(kind) == IF kind = "Merchant" THEN MerchantQueries ELSE CardholderQueries

\* lines 446-453 and 485-501: one execute_query per local
fetch_all(queries, warehouse) ==
    [local \in DOMAIN queries |-> execute_query(warehouse[queries[local]])]

IsCashIn(row) == row.transaction_type = "Cash In"
IsCashOut(row) == row.transaction_type = "Cash Out"

\* Series.sum(): the sum of a column, nulls skipped
RECURSIVE ColumnSum(_, _)
ColumnSum(frame, column) ==
    IF frame = << >> THEN 0
    ELSE (IF Head(frame)[column] = NullAmount THEN 0 ELSE Head(frame)[column])
         + ColumnSum(Tail(frame), column)

\* lines 454-466: the two frames and the four totals
pix_part(pix_concentration) ==
    IF pix_concentration = << >>
    THEN [cash_in |-> << >>, cash_out |-> << >>,
          total_cash_in_pix |-> 0, total_cash_out_pix |-> 0,
          total_cash_in_pix_atypical_hours |-> 0,
          total_cash_out_pix_atypical_hours |-> 0]
    ELSE LET cash_in == SelectSeq(pix_concentration, IsCashIn)
             cash_out == SelectSeq(pix_concentration, IsCashOut)
         IN  [cash_in |-> cash_in,
              cash_out |-> cash_out,
              total_cash_in_pix |-> ColumnSum(cash_in, "pix_amount"),
              total_cash_out_pix |-> ColumnSum(cash_out, "pix_amount"),
              total_cash_in_pix_atypical_hours |->
                  ColumnSum(cash_in, "pix_amount_atypical_hours"),
              total_cash_out_pix_atypical_hours |->
                  ColumnSum(cash_out, "pix_amount_atypical_hours")]

\* lines 467 and 569: the first record of the profile frame, or {}
first_record(frame) == IF frame # << >> THEN frame[1] ELSE << >>

\* the keys of the report that hold the records of one source, as fetched
ListFields(kind) ==
    DOMAIN Queries(kind) \ {"merchant_info", "cardholder_info", "pix_concentration"}

TotalFields ==
    {"total_cash_in_pix", "total_cash_out_pix",
     "total_cash_in_pix_atypical_hours", "total_cash_out_pix_atypical_hours"}

InfoKey(kind) == IF kind = "Merchant" THEN "merchant_info" ELSE "cardholder_info"

ReportFields(kind) ==
    {InfoKey(kind), "pix_cash_in", "pix_cash_out", "counterparty_analysis"}
    \cup TotalFields \cup ListFields(kind)

\* lines 504-526 and 600-619: the report dict
report_dict(kind, frames, ca) ==
    LET pix == pix_part(frames.pix_concentration)
    IN  [field \in ReportFields(kind) |->
            IF field = InfoKey(kind) THEN first_record(frames[field])
            ELSE IF field \in TotalFields THEN pix[field]
            ELSE IF field = "pix_cash_in" THEN pix.cash_in
            ELSE IF field = "pix_cash_out" THEN pix.cash_out
            ELSE IF field = "counterparty_analysis" THEN ca
            ELSE frames[field]]

\* app.py line 525: "if not merchant_data['merchant_info']" is the fallback
is_merchant_always(data) == TRUE

is_merchant(data) == Truthy(data.merchant_info)

\* app.py line 531: report_data['user_id'] = user_id
with_user_id(report, uid) ==
    [field \in DOMAIN report \cup {"user_id"} |->
        IF field = "user_id" THEN uid ELSE report[field]]

(***************************************************************************)
(* SpecReport: analyze_user up to the prompt, over the answers of the      *)
(* warehouse.  Up to MaxFaulty of the queried tables fail or are empty, or *)
(* all of them; the pix_concentration table has up to MaxPix rows.         *)
(***************************************************************************)
Tables ==
    {MerchantQueries[local] : local \in DOMAIN MerchantQueries}
    \cup {CardholderQueries[local] : local \in DOMAIN CardholderQueries}

RECURSIVE SubsetsUpTo(_, _)
SubsetsUpTo(S, k) ==
    IF k = 0 THEN {{}}
    ELSE LET smaller == SubsetsUpTo(S, k - 1)
         IN  smaller \cup {F \cup {t} : F \in smaller, t \in S}

\* the tables whose query raises, and those without a row for the user
Faults ==
    UNION {{[failing |-> failing, empty |-> F \ failing] : failing \in SUBSET F} :
              F \in SubsetsUpTo(Tables, MaxFaulty)}
    \cup {[failing |-> Tables, empty |-> {}], [failing |-> {}, empty |-> Tables]}

\* a row of pix_concentration: its direction and its amount
PixKinds == {<<"Cash In", 1>>, <<"Cash Out", 2>>, <<"Cash In", NullAmount>>}
PixRow(i, kind) ==
    Row(i, kind[2], [transaction_type |-> kind[1],
                     pix_amount_atypical_hours |-> 1,
                     party_document_number |-> Document])
PixFrames ==
    UNION {{[i \in 1..n |-> PixRow(i, f[i])] : f \in [1..n -> PixKinds]} : n \in 1..MaxPix}

OneRow == <<[user_id |-> 1]>>

Warehouse(fault, pix) ==
    [t \in Tables |->
        IF t \in fault.failing THEN QueryError
        ELSE IF t \in fault.empty THEN Rows(<< >>)
        ELSE IF t = "pix_concentration" THEN Rows(pix)
        ELSE Rows(OneRow)]

Warehouses == {Warehouse(fault, pix) : fault \in Faults, pix \in PixFrames}

FramesGiven == [given |-> TRUE, rows |-> << >>]

InitReport ==
    /\ pc = "analyze_user"
    /\ user_id = 1
    /\ business_validation = FALSE
    /\ llm = [raised |-> FALSE, prefix |-> "", n |-> NoScore, text |-> ""]
    /\ gpt_analysis = ""
    /\ export_payload = NoPayload
    /\ first_payload = NoPayload
    /\ reruns = 0
    /\ cash_in_list = << >>
    /\ cash_out_list = << >>
    /\ top_cash_in = << >>
    /\ top_cash_out = << >>
    /\ idx = 0
    /\ counterparty_analysis = None
    /\ lookups = << >>
    /\ BDC_AVAILABLE \in BOOLEAN
    /\ bdc = [d \in {sanitize_document(Document)} |-> Json([Result |-> <<Person>>])]
    /\ db \in Warehouses
    /\ building = None
    /\ tables = << >>
    /\ merchant_data = << >>
    /\ report_data = << >>
    /\ user_type = None
    /\ alert_type = "Custom Alert"
    /\ features = None
    /\ betting_houses = FramesGiven
    /\ pep_data = FramesGiven
    /\ prompt = << >>
    /\ NoBatch

\* the fetches of a report up to the call of analyze_counterparties
Sources(kind) ==
    /\ tables' = fetch_all(Queries(kind), db)
    /\ building' = kind
    /\ LET pix == pix_part(tables'.pix_concentration)
       IN  /\ cash_in_list' = pix.cash_in
           /\ cash_out_list' = pix.cash_out
    /\ top_cash_in' = << >>
    /\ top_cash_out' = << >>
    /\ idx' = 0
    /\ counterparty_analysis' = None
    /\ lookups' = << >>
    /\ pc' = "called"
    /\ UNCHANGED <<payloadVars, promptVars, botVars, BDC_AVAILABLE, bdc, db,
                   merchant_data, report_data, user_type>>

\* app.py 524, functions.py 446-503: merchant_report up to the lookups
MerchantSources ==
    /\ pc = "analyze_user"
    /\ Sources("Merchant")

\* functions.py 504-527: merchant_report returns its report
MerchantReport ==
    /\ pc = "returned"
    /\ building = "Merchant"
    /\ merchant_data' = report_dict("Merchant", tables, counterparty_analysis)
    /\ pc' = "merchant_data"
    /\ UNCHANGED <<payloadVars, cpVars, promptVars, botVars, db, building, tables,
                   report_data, user_type>>

\* app.py 525, 528-531: a merchant profile makes the user a Merchant
ChooseMerchant ==
    /\ pc = "merchant_data"
    /\ is_merchant(merchant_data)
    /\ report_data' = with_user_id(merchant_data, user_id)
    /\ merchant_data' = report_data'
    /\ user_type' = "Merchant"
    /\ pc' = "prompt"
    /\ UNCHANGED <<payloadVars, cpVars, promptVars, botVars, db, building, tables>>

\* app.py 525-526, functions.py 550-599: without one, cardholder_report is
\* called, up to its lookups
CardholderSources ==
    /\ pc = "merchant_data"
    /\ ~is_merchant(merchant_data)
    /\ Sources("Cardholder")

\* functions.py 600-620, app.py 526-527 and 531
CardholderReport ==
    /\ pc = "returned"
    /\ building = "Cardholder"
    /\ report_data' = with_user_id(report_dict("Cardholder", tables, counterparty_analysis),
                                   user_id)
    /\ user_type' = "Cardholder"
    /\ pc' = "prompt"
    /\ UNCHANGED <<payloadVars, cpVars, promptVars, botVars, db, building, tables,
                   merchant_data>>
(***************************************************************************)
(* generate_prompt.  The prompt is the sequence of the blocks appended to  *)
(* it, each with the values it renders.                                    *)
(***************************************************************************)
\* lines 627-640, 655-656: the fields rendered with report_data.get(field, [])
RenderedFields(kind) ==
    {"issuing_concentration", "pix_cash_in", "pix_cash_out", "offense_history",
     "contacts", "devices", "lawsuit_data", "business_data", "prison_transactions",
     "sanctions_history", "denied_pix_transactions", "bets_pix_transfers",
     "counterparty_analysis"}
    \cup (IF kind = "Merchant"
          THEN {"transaction_concentration", "products_online", "denied_transactions"}
          ELSE {})

\* lines 641-653: the legend, the alert type and the profile
base_block(report, kind, alert) ==
    [block |-> "base", alert_type |-> alert, user_type |-> kind,
     user_info |-> report[lower(kind) \o "_info"]]

\* lines 654-799: the financial activity, one template for each user type
activity_block(report, kind) ==
    [block |-> IF kind = "Merchant" THEN "merchant_activity" ELSE "cardholder_activity",
     totals |-> [field \in TotalFields |-> report[field]],
     fields |-> [field \in RenderedFields(IF kind = "Merchant" THEN kind ELSE "Cardholder")
                    |-> Get(report, field, << >>)]]

Opening(alert, sentence) == [block |-> "alert", alert |-> alert, opening |-> sentence]
OpeningWith(alert, sentence, data) ==
    [block |-> "alert", alert |-> alert, opening |-> sentence, data |-> data]

\* the chain without the tests of the optional arguments
alert_block_unguarded(alert, houses, pep, feats) ==
    IF alert = "betting_houses_alert [BR]"
    THEN <<OpeningWith(alert, "Cliente está transacionando com casas de apostas.", houses)>>
    ELSE IF alert = "Goverment_Corporate_Cards_Alert"
    THEN <<Opening(alert, "Cliente está transacionando com cartões corporativos governamentais.")>>
    ELSE IF alert = "ch_alert [BR]"
    THEN <<Opening(alert, "Cliente com possíveis anomalias em PIX.")>>
    ELSE IF alert = "pix_merchant_alert [BR]"
    THEN <<Opening(alert, "Cliente Merchant com possíveis anomalias em PIX Cash In.")>>
    ELSE IF alert = "international_cards_alert [BR]"
    THEN <<Opening(alert, "Cliente está transacionando com cartões internacionais.")>>
    ELSE IF alert = "bank_slips_alert [BR]"
    THEN <<Opening(alert, "Cliente com possíveis anomalias envolvendo boletos bancários.")>>
    ELSE IF alert = "gafi_alert [US]"
    THEN <<Opening(alert, "Cliente está transacionando com países proibidos do GAFI.")>>
    ELSE IF alert = "Pep_Pix Alert"
    THEN <<OpeningWith(alert, "Cliente transacionando com Pessoas Politicamente Expostas (PEP).", pep)>>
    ELSE IF alert = "AI Alert"
    THEN <<OpeningWith(alert, "", feats)>>
    ELSE IF alert = "Issuing Transactions Alert"
    THEN <<Opening(alert, "Cliente está transacionando altos valores via Issuing.")>>
    ELSE << >>

\* lines 800-990: the if / elif chain over alert_type
alert_block(alert, houses, pep, feats) ==
    IF alert = "betting_houses_alert [BR]" /\ houses.given
    THEN <<OpeningWith(alert, "Cliente está transacionando com casas de apostas.",
                       houses.rows)>>
    ELSE IF alert = "Goverment_Corporate_Cards_Alert"
    THEN <<Opening(alert, "Cliente está transacionando com cartões corporativos governamentais.")>>
    ELSE IF alert = "ch_alert [BR]"
    THEN <<Opening(alert, "Cliente com possíveis anomalias em PIX.")>>
    ELSE IF alert = "pix_merchant_alert [BR]"
    THEN <<Opening(alert, "Cliente Merchant com possíveis anomalias em PIX Cash In.")>>
    ELSE IF alert = "international_cards_alert [BR]"
    THEN <<Opening(alert, "Cliente está transacionando com cartões internacionais.")>>
    ELSE IF alert = "bank_slips_alert [BR]"
    THEN <<Opening(alert, "Cliente com possíveis anomalias envolvendo boletos bancários.")>>
    ELSE IF alert = "gafi_alert [US]"
    THEN <<Opening(alert, "Cliente está transacionando com países proibidos do GAFI.")>>
    ELSE IF alert = "Pep_Pix Alert" /\ pep.given
    THEN <<OpeningWith(alert, "Cliente transacionando com Pessoas Politicamente Expostas (PEP).",
                       pep.rows)>>
    ELSE IF alert = "AI Alert" /\ TruthyStr(feats)
    THEN <<OpeningWith(alert, "", feats)>>
    ELSE IF alert = "Issuing Transactions Alert"
    THEN <<Opening(alert, "Cliente está transacionando altos valores via Issuing.")>>
    ELSE << >>

\* lines 991-1010: the closing instruction and its format line
FormatLine == "Formato: \"" \o MandatedPrefix \o "X/10\" (onde X é o número de 1 a 10)"
closing_block == [block |-> "closing", format |-> FormatLine]

\* lines 622-1011; a report without the profile key or a total raises KeyError
generate_prompt(report, kind, alert, houses, pep, feats) ==
    IF ~({lower(kind) \o "_info"} \cup TotalFields \subseteq DOMAIN report)
    THEN [raised |-> TRUE]
    ELSE [raised |-> FALSE,
          prompt |-> <<base_block(report, kind, alert), activity_block(report, kind)>>
                     \o alert_block(alert, houses, pep, feats)
                     \o <<closing_block>>]

\* app.py 532: prompt = generate_prompt(...)
GeneratePrompt ==
    /\ pc = "prompt"
    /\ LET out == generate_prompt(report_data, user_type, alert_type,
                                  betting_houses, pep_data, features)
       IN  IF out.raised
           THEN pc' = "raised" /\ UNCHANGED prompt
           ELSE pc' = "prompted" /\ prompt' = out.prompt
    /\ UNCHANGED <<payloadVars, cpVars, reportVars, botVars, alert_type, features,
                   betting_houses, pep_data>>

NextReport ==
    \/ MerchantSources
    \/ NextCounterparty
    \/ MerchantReport
    \/ ChooseMerchant
    \/ CardholderSources
    \/ CardholderReport
    \/ GeneratePrompt

SpecReport == InitReport /\ [][NextReport]_vars

(***************************************************************************)
(* SpecPrompt: generate_prompt over the alert types and its three optional *)
(* arguments, for a Merchant and for a Cardholder whose report             *)
(* analyze_user has built.                                                 *)
(***************************************************************************)
\* the alert types generate_prompt compares with, and three it does not
\* know: the one of fetch_flagged_users and two of the query of fetch_data
AlertTypes ==
    {"betting_houses_alert [BR]", "Goverment_Corporate_Cards_Alert", "ch_alert [BR]",
     "pix_merchant_alert [BR]", "international_cards_alert [BR]",
     "bank_slips_alert [BR]", "gafi_alert [US]", "Pep_Pix Alert", "AI Alert",
     "Issuing Transactions Alert",
     "Custom Alert", "CH Alert", "Betting_Houses_Alert", "Merchant_Pix Alert",
     "International_Cards_Alert", "Bank_Slips_Alert", "GAFI Alert [US]"}

\* an optional DataFrame: left out, empty, or with a row
Frames == {NoFrame, FramesGiven, [given |-> TRUE, rows |-> OneRow]}
\* the features of a flagged user: null, empty, or a text
FeatureTexts == {None, "", "pix_night=0.9"}

PixOfPrompt == <<PixRow(1, <<"Cash In", 1>>), PixRow(2, <<"Cash Out", 2>>)>>
\* the warehouse of a user with a merchant profile, and of one without
WarehouseOf(kind) ==
    Warehouse([failing |-> {},
               empty |-> IF kind = "Merchant" THEN {} ELSE {"merchant_report"}],
              PixOfPrompt)

ReportOf(kind, warehouse) ==
    report_dict(kind, fetch_all(Queries(kind), warehouse), NewAnalysis(FALSE))

InitPrompt ==
    /\ pc = "prompt"
    /\ user_id = 1
    /\ business_validation = FALSE
    /\ llm = [raised |-> FALSE, prefix |-> "", n |-> NoScore, text |-> ""]
    /\ gpt_analysis = ""
    /\ export_payload = NoPayload
    /\ first_payload = NoPayload
    /\ reruns = 0
    /\ cash_in_list = << >>
    /\ cash_out_list = << >>
    /\ top_cash_in = << >>
    /\ top_cash_out = << >>
    /\ idx = 0
    /\ counterparty_analysis = NewAnalysis(FALSE)
    /\ lookups = << >>
    /\ BDC_AVAILABLE = FALSE
    /\ bdc = << >>
    /\ \E kind \in {"Merchant", "Cardholder"} :
          /\ db = WarehouseOf(kind)
          /\ building = kind
          /\ tables = fetch_all(Queries(kind), db)
          /\ report_data = with_user_id(ReportOf(kind, db), user_id)
          /\ merchant_data = IF kind = "Merchant" THEN report_data
                             ELSE ReportOf("Merchant", db)
          /\ user_type = kind
    /\ alert_type \in AlertTypes
    /\ features \in FeatureTexts
    /\ betting_houses \in Frames
    /\ pep_data \in Frames
    /\ prompt = << >>
    /\ NoBatch

SpecPrompt == InitPrompt /\ [][GeneratePrompt]_vars

(***************************************************************************)
(* run_bot: the loop over the flagged users, one step per call the loop    *)
(* body makes.  A call returns or raises; the except clause of the loop    *)
(* catches what a call raises.  The steps are logged in events.            *)
(***************************************************************************)
\* the lists fetch_flagged_users may return
UserLists == UNION {[1..n -> FlaggedUsers] : n \in 0..MaxUsers}

\* the replies of the completion service in a batch: a scored analysis, or
\* an exception, which get_chatgpt_response turns into a text
BatchReplies ==
    {[raised |-> FALSE, prefix |-> MandatedPrefix, n |-> 9,
      text |-> MandatedPrefix \o "9/10"],
     [raised |-> TRUE, prefix |-> "", n |-> NoScore, text |-> "Connection error."]}

\* what requests.post may do (app.py 450): answer with a status and a body,
\* or raise (no connection)
Responses ==
    {[raised |-> FALSE, status_code |-> 200, text |-> "{}"],
     [raised |-> FALSE, status_code |-> 500, text |-> "Internal Server Error"],
     [raised |-> TRUE, status_code |-> 0, text |-> "Connection refused"]}

\* a send_payload that calls response.raise_for_status()
send_payload_raise_for_status(post) ==
    [raised |-> post.raised \/ post.status_code >= 400, text |-> post.text]

\* app.py 447-451: the body of the response, whatever its status
send_payload(post) ==
    [raised |-> post.raised, text |-> post.text]

\* app.py 582-584: the score run_bot reads from the description of the
\* payload, with the first pattern of format_export_payload only
run_bot_risk_score(description) ==
    LET risk_score_match == re_search(RiskScorePattern, description)
    IN  IF risk_score_match.found THEN int(risk_score_match.group1) ELSE 0

\* the profile of the merchant report of a user: missing, or the record
MerchantProfiles == {<< >>, OneRow[1]}

Returned(step) == [user |-> cursor + 1, step |-> step, outcome |-> "returned"]
Raised(step) == [user |-> cursor + 1, step |-> step, outcome |-> "raised"]

\* app.py 567, 681-682: after the except clause the for loop goes on with
\* the next user
after_exception_abort(i, total_users) == total_users

after_exception(i, total_users) == i + 1

\* the statement that follows a call that returned: app.py 579-581 and
\* 524-535, for a user with (merchant) or without a merchant profile
after_sending_unformatted(step, merchant) ==
    CASE step = "fetch_pep_data" -> "merchant_report"
      [] step = "merchant_report" -> "merchant_lookups"
      [] step = "merchant_lookups" -> IF merchant THEN "generate_prompt"
                                      ELSE "cardholder_report"
      [] step = "cardholder_report" -> "cardholder_lookups"
      [] step = "cardholder_lookups" -> "generate_prompt"
      [] step = "generate_prompt" -> "get_gpt_analysis"
      [] step = "get_gpt_analysis" -> "send_payload"
      [] step = "send_payload" -> "format_export_payload"
      [] step = "format_export_payload" -> "render"
      [] step = "render" -> "loop"

after(step, merchant) ==
    CASE step = "fetch_pep_data" -> "merchant_report"
      [] step = "merchant_report" -> "merchant_lookups"
      [] step = "merchant_lookups" -> IF merchant THEN "generate_prompt"
                                      ELSE "cardholder_report"
      [] step = "cardholder_report" -> "cardholder_lookups"
      [] step = "cardholder_lookups" -> "generate_prompt"
      [] step = "generate_prompt" -> "get_gpt_analysis"
      [] step = "get_gpt_analysis" -> "format_export_payload"
      [] step = "format_export_payload" -> "send_payload"
      [] step = "send_payload" -> "render"
      [] step = "render" -> "loop"

\* run_bot called from main (app.py 1097-1099) with the checkbox of line
\* 736 in the given state
InitRunBot(checked) ==
    /\ pc = "loop"
    /\ user_id = 0
    /\ business_validation = FALSE
    /\ llm = [raised |-> FALSE, prefix |-> "", n |-> NoScore, text |-> ""]
    /\ gpt_analysis = ""
    /\ export_payload = NoPayload
    /\ first_payload = NoPayload
    /\ reruns = 0
    /\ cash_in_list = << >>
    /\ cash_out_list = << >>
    /\ top_cash_in = << >>
    /\ top_cash_out = << >>
    /\ idx = 0
    /\ counterparty_analysis = None
    /\ lookups = << >>
    /\ BDC_AVAILABLE = TRUE
    /\ bdc = << >>
    /\ NoReport
    /\ NoPrompt
    /\ flagged_users \in UserLists
    /\ cursor = 0
    /\ analyzed_count = 0
    /\ suspicious_count = 0
    /\ risk_scores = << >>
    /\ simulation_mode = checked
    /\ response = NoResponse
    /\ events = << >>

\* the checkbox as it is created: value=False
InitBot == InitRunBot(FALSE)

\* the checkbox checked before the analysis is run
InitDryRun == InitRunBot(TRUE)

\* what a step leaves alone besides pc, cursor, events and what it assigns
BotFrame ==
    UNCHANGED <<first_payload, reruns, cpVars, db, building, tables, report_data,
                promptVars, flagged_users, simulation_mode>>

\* the call of the step returned: on to the next statement
Return(step, merchant) ==
    /\ events' = Append(events, Returned(step))
    /\ pc' = after(step, merchant)
    /\ cursor' = IF pc' = "loop" THEN cursor + 1 ELSE cursor

\* the call of the step raised: app.py 681-682, then the next iteration
Except(step) ==
    /\ events' = Append(events, Raised(step))
    /\ pc' = "loop"
    /\ cursor' = after_exception(cursor, Len(flagged_users))

\* app.py 567-578: the next user of the list
StartUser ==
    /\ pc = "loop"
    /\ cursor < Len(flagged_users)
    /\ analyzed_count' = analyzed_count + 1
    /\ user_id' = flagged_users[cursor + 1].user_id
    /\ business_validation' = flagged_users[cursor + 1].business_validation
    /\ events' = Append(events, Returned("start"))
    /\ pc' = "fetch_pep_data"
    /\ UNCHANGED <<cursor, suspicious_count, risk_scores, response, llm, gpt_analysis,
                   export_payload, merchant_data, user_type>>
    /\ BotFrame

\* app.py 579: the query of fetch_pep_data is not in a try of its own
FetchPepData ==
    /\ pc = "fetch_pep_data"
    /\ Return("fetch_pep_data", TRUE) \/ Except("fetch_pep_data")
    /\ UNCHANGED <<user_id, business_validation, analyzed_count, suspicious_count,
                   risk_scores, response, llm, gpt_analysis,
                   export_payload, merchant_data, user_type>>
    /\ BotFrame

\* app.py 524, functions.py 446-502: the fetches of merchant_report, each
\* through execute_query, which does not raise
BuildMerchantReport ==
    /\ pc = "merchant_report"
    /\ \E info \in MerchantProfiles : merchant_data' = [merchant_info |-> info]
    /\ Return("merchant_report", TRUE)
    /\ UNCHANGED <<user_id, business_validation, analyzed_count, suspicious_count,
                   risk_scores, response, llm, gpt_analysis,
                   export_payload, user_type>>
    /\ BotFrame

\* functions.py 503, app.py 525-530: analyze_counterparties returns, or
\* raises on a null amount
MerchantLookups ==
    /\ pc = "merchant_lookups"
    /\ \/ /\ Return("merchant_lookups", is_merchant(merchant_data))
          /\ user_type' = IF is_merchant(merchant_data) THEN "Merchant" ELSE user_type
       \/ Except("merchant_lookups") /\ UNCHANGED user_type
    /\ UNCHANGED <<user_id, business_validation, analyzed_count, suspicious_count,
                   risk_scores, response, llm, gpt_analysis,
                   export_payload, merchant_data>>
    /\ BotFrame

\* app.py 526, functions.py 550-598: the fetches of cardholder_report
BuildCardholderReport ==
    /\ pc = "cardholder_report"
    /\ Return("cardholder_report", FALSE)
    /\ UNCHANGED <<user_id, business_validation, analyzed_count, suspicious_count,
                   risk_scores, response, llm, gpt_analysis,
                   export_payload, merchant_data, user_type>>
    /\ BotFrame

\* functions.py 599, app.py 527
CardholderLookups ==
    /\ pc = "cardholder_lookups"
    /\ \/ Return("cardholder_lookups", FALSE) /\ user_type' = "Cardholder"
       \/ Except("cardholder_lookups") /\ UNCHANGED user_type
    /\ UNCHANGED <<user_id, business_validation, analyzed_count, suspicious_count,
                   risk_scores, response, llm, gpt_analysis,
                   export_payload, merchant_data>>
    /\ BotFrame

\* app.py 531-532: generate_prompt returns, or raises out of json.dumps
ComposePrompt ==
    /\ pc = "generate_prompt"
    /\ Return("generate_prompt", TRUE) \/ Except("generate_prompt")
    /\ UNCHANGED <<user_id, business_validation, analyzed_count, suspicious_count,
                   risk_scores, response, llm, gpt_analysis,
                   export_payload, merchant_data, user_type>>
    /\ BotFrame

\* app.py 533: get_gpt_analysis returns a text whatever the service does
CallGpt ==
    /\ pc = "get_gpt_analysis"
    /\ \E outcome \in BatchReplies :
          /\ llm' = outcome
          /\ gpt_analysis' = get_chatgpt_response(outcome)
    /\ Return("get_gpt_analysis", TRUE)
    /\ UNCHANGED <<user_id, business_validation, analyzed_count, suspicious_count,
                   risk_scores, response, export_payload,
                   merchant_data, user_type>>
    /\ BotFrame

\* app.py 534-536
FormatPayload ==
    /\ pc = "format_export_payload"
    /\ export_payload' = format_export_payload(user_id, gpt_analysis, business_validation)
    /\ events' = Append(events, [user |-> cursor + 1, step |-> "format_export_payload",
                                 outcome |-> "returned", payload |-> export_payload'])
    /\ pc' = after("format_export_payload", TRUE)
    /\ UNCHANGED <<cursor, user_id, business_validation, analyzed_count, suspicious_count,
                   risk_scores, response, llm,
                   gpt_analysis, merchant_data, user_type>>
    /\ BotFrame

\* app.py 581, 447-451: requests.post returns a response, whatever its
\* status, or raises; send_payload hands response.text back
SendPayload ==
    /\ pc = "send_payload"
    /\ \E post \in Responses :
          /\ response' = post
          /\ IF send_payload(post).raised
             THEN Except("send_payload")
             ELSE /\ events' = Append(events, [user |-> cursor + 1, step |-> "send_payload",
                                               outcome |-> "returned",
                                               payload |-> export_payload])
                  /\ pc' = after("send_payload", TRUE)
                  /\ UNCHANGED cursor
    /\ UNCHANGED <<user_id, business_validation, analyzed_count, suspicious_count,
                   risk_scores, llm, gpt_analysis,
                   export_payload, merchant_data, user_type>>
    /\ BotFrame

\* app.py 582-680: the score read again from the description, the score
\* list and the suspicious counter, then the display of the result and of
\* the progress (assignments and display calls on values that are present)
Render ==
    /\ pc = "render"
    /\ risk_scores' = Append(risk_scores, run_bot_risk_score(export_payload.description))
    /\ suspicious_count' = IF export_payload.conclusion = "suspicious"
                           THEN suspicious_count + 1
                           ELSE suspicious_count
    /\ Return("render", TRUE)
    /\ UNCHANGED <<user_id, business_validation, analyzed_count, response, llm,
                   gpt_analysis, export_payload, merchant_data, user_type>>
    /\ BotFrame

\* app.py 683-711: the summary after the loop
Summary ==
    /\ pc = "loop"
    /\ cursor >= Len(flagged_users)
    /\ pc' = "summary"
    /\ UNCHANGED <<cursor, events, user_id, business_validation, analyzed_count,
                   suspicious_count, risk_scores, response, llm,
                   gpt_analysis, export_payload, merchant_data, user_type>>
    /\ BotFrame

NextBot ==
    \/ StartUser
    \/ FetchPepData
    \/ BuildMerchantReport
    \/ MerchantLookups
    \/ BuildCardholderReport
    \/ CardholderLookups
    \/ ComposePrompt
    \/ CallGpt
    \/ FormatPayload
    \/ SendPayload
    \/ Render
    \/ Summary

SpecBot == InitBot /\ [][NextBot]_vars

SpecDryRun == InitDryRun /\ [][NextBot]_vars

\* the positions of the loop: its head and the calls of its body
Calls ==
    {"loop", "fetch_pep_data", "merchant_report", "merchant_lookups",
     "cardholder_report", "cardholder_lookups", "generate_prompt",
     "get_gpt_analysis", "format_export_payload", "send_payload", "render"}

Leaves(step) == pc = step /\ pc' \in (Calls \cup {"summary"}) \ {step}

\* every call of the loop body returns or raises in the end, and the loop is
\* not interrupted: no position of the loop is held for ever
SpecBotFair == SpecBot /\ \A step \in Calls : WF_pc(Leaves(step))

(***************************************************************************)
(* SpecScore: one user of run_bot from the completion call on, with every  *)
(* text the service may return: analyze_user's last two calls, then the    *)
(* lines 582-587 of run_bot that read the score again.                     *)
(***************************************************************************)
\* app.py 582-587: description, risk_score, risk_scores.append and the
\* suspicious counter
ReadRiskScore ==
    /\ pc = "formatted"
    /\ risk_scores' = Append(risk_scores, run_bot_risk_score(export_payload.description))
    /\ suspicious_count' = IF export_payload.conclusion = "suspicious"
                           THEN suspicious_count + 1
                           ELSE suspicious_count
    /\ pc' = "scored"
    /\ UNCHANGED <<payloadVars, cpVars, reportVars, promptVars, flagged_users, cursor,
                   analyzed_count, simulation_mode, response, events>>

NextScore == GetGptAnalysis \/ FormatExportPayload \/ ReadRiskScore

SpecScore == InitPayload /\ [][NextScore]_vars

(***************************************************************************)
(* Properties of format_export_payload and get_chatgpt_response.           *)
(***************************************************************************)
\* the sanitized text of the analysis handed to format_export_payload
Clean == sanitize(gpt_analysis)
MarkerPresent ==
    LET lowered == lower(Clean)
    IN  \E i \in 1..Len(error_indicators) : Contains(lowered, lower(error_indicators[i]))
PhrasePresent == Contains(lower(Clean), "normalizar o caso")
Decision(p) == <<p.conclusion, p.priority>>

\* the table of section 4.5 of the specification
TableDecision(X) ==
    CASE X \in 1..6 -> <<"normal", "high">>
      [] X \in 7..8 -> <<"suspicious", "mid">>
      [] X = 9 -> <<"suspicious", "high">>
      [] X = 10 -> <<"offense", "high">>

\* C1: a description whose score line is "Risco de Lavagem de Dinheiro: X/10",
\* X in 1..10, with no error marker and no "normalizar o caso", gets the pair
\* (conclusion, priority) of the table: 1-6 (normal, high), 7-8 (suspicious, mid),
\* 9 (suspicious, high), 10 (offense, high).
C1_ScoreTable ==
    (/\ pc = "formatted"
     /\ ~llm.raised
     /\ llm.prefix = MandatedPrefix
     /\ llm.n \in 1..10
     /\ ~MarkerPresent
     /\ ~PhrasePresent)
    => Decision(first_payload) = TableDecision(llm.n)

C1_Witness ==
    /\ pc = "formatted"
    /\ llm.prefix = MandatedPrefix
    /\ llm.n = 7
    /\ ~MarkerPresent
    /\ ~PhrasePresent
    /\ Decision(first_payload) = <<"suspicious", "mid">>

\* C2: when the sanitized description contains an error marker, in any letter
\* case, the conclusion is "" and the priority "high", whatever score line or
\* "normalizar o caso" the text also carries, and no note is appended.
C2_ErrorMarker ==
    (pc = "formatted" /\ MarkerPresent)
    => /\ Decision(first_payload) = <<"", "high">>
       /\ first_payload.description = Clean

C2_Witness ==
    /\ pc = "formatted"
    /\ ~llm.raised
    /\ llm.n = 7
    /\ PhrasePresent
    /\ MarkerPresent
    /\ Decision(first_payload) = <<"", "high">>

\* C3: when the completion call raised, whatever the exception, the payload made
\* from the text get_chatgpt_response returned has conclusion "" and priority "high".
C3_LlmFailure ==
    (pc = "formatted" /\ llm.raised) => Decision(first_payload) = <<"", "high">>

C3_Witness ==
    /\ pc = "formatted"
    /\ llm.raised
    /\ Contains(llm.text, "normalizar o caso")
    /\ Decision(first_payload) = <<"", "high">>

\* C4: with no error marker and "normalizar o caso" in the text (any letter case),
\* the conclusion is "normal" for every score 0..9 and "offense" for the score 10.
C4_Override ==
    (pc = "formatted" /\ ~llm.raised /\ PhrasePresent /\ ~MarkerPresent)
    => /\ llm.n <= 9 => first_payload.conclusion = "normal"
       /\ llm.n = 10 => first_payload.conclusion = "offense"

C4_Witness ==
    /\ pc = "formatted"
    /\ ~llm.raised
    /\ llm.n = 9
    /\ Contains(gpt_analysis, "NORMALIZAR")
    /\ ~MarkerPresent
    /\ first_payload.conclusion = "normal"

\* C5: with no error marker, when neither pattern matches the sanitized text, the
\* payload is (normal, high) and its description is the sanitized text, no note added.
\* (Every text of the model that has a score line is matched by one of the patterns.)
C5_NoMatchDefault ==
    (/\ pc = "formatted"
     /\ llm.n = NoScore
     /\ ~MarkerPresent
     /\ ~re_search(RiskScorePattern, Clean).found
     /\ ~re_search(AltScorePattern, Clean).found)
    => /\ Decision(first_payload) = <<"normal", "high">>
       /\ first_payload.description = Clean

C5_Witness ==
    /\ pc = "formatted"
    /\ ~llm.raised
    /\ llm.n = NoScore
    /\ Contains(gpt_analysis, "risco: 9/10")
    /\ ~MarkerPresent
    /\ Decision(first_payload) = <<"normal", "high">>
    /\ first_payload.description = Clean

\* C6: format_export_payload applied to its own description gives the same payload,
\* and for a score of 6 the monitoring note, for a score of 7 or 8 the
\* medium-high-risk note, occurs exactly once in the description.
C6_NoteExactlyOnce ==
    pc = "formatted"
    => /\ export_payload = first_payload
       /\ (~llm.raised /\ llm.n = 6 /\ ~MarkerPresent)
            => Count(export_payload.description, MonitoringNote) = 1
       /\ (~llm.raised /\ llm.n \in 7..8 /\ ~MarkerPresent)
            => Count(export_payload.description, MediumHighNote) = 1

\* the part of C6 the code has: re-application changes nothing, a note is never doubled
Idempotent ==
    pc = "formatted"
    => /\ export_payload = first_payload
       /\ Count(export_payload.description, MonitoringNote) <= 1
       /\ Count(export_payload.description, MediumHighNote) <= 1

\* C7: the description of a payload has none of the characters #, *, _ (also after
\* a note was appended), and sanitizing it again returns it unchanged.
C7_NoMarkdown ==
    pc = "formatted"
    => \A p \in {first_payload, export_payload} :
          /\ \A i \in 1..Len(p.description) : CharAt(p.description, i) \notin {"#", "*", "_"}
          /\ sanitize(p.description) = p.description

C7_Witness ==
    /\ pc = "formatted"
    /\ Contains(gpt_analysis, "_")
    /\ Contains(gpt_analysis, "*")
    /\ Contains(first_payload.description, MonitoringNote)

\* C8: every payload has the user_id it was called with, the constant fields
\* analysis_type "manual", automatic_pipeline true, offense_group
\* "illegal_activity", offense_name "money_laundering", related_analyses empty,
\* a conclusion among "", normal, suspicious, offense and a priority mid or high.
C8_WellFormed ==
    pc = "formatted"
    => \A p \in {first_payload, export_payload} :
          /\ DOMAIN p = {"user_id", "description", "analysis_type", "conclusion", "priority",
                         "automatic_pipeline", "offense_group", "offense_name",
                         "related_analyses"}
          /\ p.user_id = user_id
          /\ p.analysis_type = "manual"
          /\ p.automatic_pipeline = TRUE
          /\ p.offense_group = "illegal_activity"
          /\ p.offense_name = "money_laundering"
          /\ p.related_analyses = << >>
          /\ p.conclusion \in {"", "normal", "suspicious", "offense"}
          /\ p.priority \in {"mid", "high"}

C8_Witness ==
    /\ pc = "formatted"
    /\ user_id = 2
    /\ first_payload.user_id = 2
    /\ first_payload.priority = "mid"
    /\ reruns = 1

(***************************************************************************)
(* Properties of analyze_counterparties.                                   *)
(***************************************************************************)
\* the rows of a list that rank among its 3 highest amounts, a row of equal
\* amount ranking before the rows that follow it in the list
TopRanked(list) ==
    {i \in 1..Len(list) :
        Cardinality({j \in 1..Len(list) :
            \/ list[j].pix_amount > list[i].pix_amount
            \/ list[j].pix_amount = list[i].pix_amount /\ j < i}) < 3}

\* the profiles of one direction: at most 3, each of a top-ranked row of the
\* list, in non-increasing order of amount
TopThree(profiles, list, transaction_type) ==
    /\ Len(profiles) <= 3
    /\ \A k \in 1..Len(profiles) :
          /\ profiles[k].transaction_type = transaction_type
          /\ \E i \in TopRanked(list) :
                /\ profiles[k].party_name = list[i].party
                /\ profiles[k].transaction_amount = list[i].pix_amount
    /\ \A k \in 1..(Len(profiles) - 1) :
          profiles[k].transaction_amount >= profiles[k + 1].transaction_amount

NoInput == cash_in_list = << >> /\ cash_out_list = << >>

\* C9: whatever the length of the two lists, the result analyze_counterparties
\* returns holds at most 3 profiles per direction, each of one of the 3 rows
\* of highest pix_amount of its direction (equal amounts in list order),
\* listed in non-increasing order of amount; with two empty lists the call
\* does not raise and returns empty lists and a zero summary.
C9_TopThree ==
    /\ NoInput => pc # "raised"
    /\ pc = "returned" =>
          /\ TopThree(counterparty_analysis.top_cash_in_analysis, cash_in_list, "CASH_IN")
          /\ TopThree(counterparty_analysis.top_cash_out_analysis, cash_out_list, "CASH_OUT")
          /\ NoInput =>
                /\ counterparty_analysis.top_cash_in_analysis = << >>
                /\ counterparty_analysis.top_cash_out_analysis = << >>
                /\ counterparty_analysis.summary = EmptySummary

\* four cash-in rows of amounts 1, 2, 1, 2: the profiles are those of the
\* rows 2, 4 and 1, the row 3 is left out
C9_Witness ==
    /\ pc = "returned"
    /\ Len(cash_in_list) = 4
    /\ Len(counterparty_analysis.top_cash_in_analysis) = 3
    /\ [k \in 1..3 |-> counterparty_analysis.top_cash_in_analysis[k].party_name]
          = <<PartyName(2), PartyName(4), PartyName(1)>>
    /\ Len(counterparty_analysis.top_cash_out_analysis) = 1

\* the list with 0 in the place of every null amount
NullsAsZero(list) ==
    [i \in 1..Len(list) |->
        IF list[i].pix_amount = NullAmount THEN [list[i] EXCEPT !.pix_amount = 0]
        ELSE list[i]]
Parties(list) == [i \in 1..Len(list) |-> list[i].party]
HasNull(list) == \E i \in 1..Len(list) : list[i].pix_amount = NullAmount

\* C10: a row whose pix_amount is null is ranked as if its amount were 0: the
\* selection of the top 3 completes without raising, and the rows selected
\* are those of the list with 0 for null, so the null row comes after every
\* row of positive amount.
C10_NullRankedAsZero ==
    /\ (pc # "called" /\ BDC_AVAILABLE /\ HasNull(cash_in_list)) =>
          /\ pc # "raised"
          /\ Parties(top_cash_in) = Parties(top3(NullsAsZero(cash_in_list)))
    /\ (pc \in {"cash_out", "returned", "raised"} /\ BDC_AVAILABLE
            /\ ~HasNull(cash_in_list) /\ HasNull(cash_out_list)) =>
          /\ pc # "raised"
          /\ Parties(top_cash_out) = Parties(top3(NullsAsZero(cash_out_list)))

\* a null amount stops the call: the sort raises, nothing is returned
NullAmountRaises ==
    (pc # "called" /\ BDC_AVAILABLE /\ HasNull(cash_in_list)) => pc = "raised"

(***************************************************************************)
(* Properties of the profiles, against the answer of the service           *)
(* (SpecExtract: every profile is made from the answer for Document).      *)
(***************************************************************************)
Profiles ==
    IF pc \in {"cash_in", "cash_out", "returned"}
    THEN counterparty_analysis.top_cash_in_analysis
         \o counterparty_analysis.top_cash_out_analysis
    ELSE << >>

AnsweredPerson == bdc[sanitize_document(Document)].body.Result[1]
AnsweredKyc == AnsweredPerson.KycData
AnsweredPeps == IF AnsweredKyc = << >> THEN << >> ELSE AnsweredKyc.PEPHistory
AnsweredSanctions == IF AnsweredKyc = << >> THEN << >> ELSE AnsweredKyc.SanctionsHistory
AnsweredLawsuits == AnsweredPerson.Processes.Lawsuits
RateIs100(item) == "MatchRate" \in DOMAIN item /\ item.MatchRate = 100
FullMatches == SelectSeq(AnsweredSanctions, RateIs100)
FlagEntries ==
    (IF AnsweredKyc # << >> /\ AnsweredKyc.IsCurrentlyPEP THEN <<"Current PEP">> ELSE << >>)
    \o (IF AnsweredKyc # << >> /\ AnsweredKyc.IsCurrentlySanctioned
        THEN <<"Current Sanction">> ELSE << >>)

\* C11: the sanctions of a profile are, in this order, one entry per
\* PEPHistory item, one entry per SanctionsHistory item whose MatchRate is 100
\* (no item of another MatchRate, or of none, appears), one entry if
\* IsCurrentlyPEP and one if IsCurrentlySanctioned; has_sanctions is true
\* exactly when the sequence is not empty.
C11_Sanctions ==
    \A k \in 1..Len(Profiles) :
        LET s == Profiles[k].sanctions
            np == Len(AnsweredPeps)
            nf == Len(FullMatches)
        IN  /\ Len(s) = np + nf + Len(FlagEntries)
            /\ \A i \in 1..Len(s) :
                  IF i <= np
                  THEN s[i].type = "PEP" /\ s[i].description = AnsweredPeps[i].Description
                  ELSE IF i <= np + nf
                  THEN /\ s[i].match_rate = 100
                       /\ s[i].type = FullMatches[i - np].Type
                       /\ s[i].source = FullMatches[i - np].Source
                  ELSE s[i].type = FlagEntries[i - np - nf]
            /\ \A i \in 1..Len(s) : "match_rate" \in DOMAIN s[i] => s[i].match_rate = 100
            /\ Profiles[k].has_sanctions <=> s # << >>

\* two sanction items, MatchRate 100 and 80, and nothing else: the one entry
\* is that of the item of MatchRate 100
C11_Witness ==
    /\ pc = "returned"
    /\ Len(Profiles) = 2
    /\ AnsweredKyc # << >>
    /\ Len(AnsweredSanctions) = 2
    /\ RateIs100(AnsweredSanctions[1])
    /\ "MatchRate" \in DOMAIN AnsweredSanctions[2] /\ AnsweredSanctions[2].MatchRate = 80
    /\ AnsweredPeps = << >> /\ FlagEntries = << >>
    /\ Len(Profiles[1].sanctions) = 1
    /\ Profiles[1].sanctions[1].match_rate = 100
    /\ Profiles[1].has_sanctions
    /\ Profiles[1].risk_level = "ALTO"

\* C12: the risk_level of a profile follows a strict precedence: ALTO when
\* has_sanctions is true, whatever the number of processes; otherwise MÉDIO
\* with more than 3 processes, BAIXO-MÉDIO with 1 to 3, BAIXO with none.
C12_RiskLevel ==
    \A k \in 1..Len(Profiles) :
        LET n == Len(AnsweredLawsuits)
        IN  /\ Profiles[k].has_processes <=> n > 0
            /\ Len(Profiles[k].processes) = (IF n > 10 THEN 10 ELSE n)
            /\ Profiles[k].risk_level =
                  (IF Profiles[k].has_sanctions THEN "ALTO"
                   ELSE IF n > 3 THEN "MÉDIO"
                   ELSE IF n >= 1 THEN "BAIXO-MÉDIO"
                   ELSE "BAIXO")

\* sanctions and more than 3 processes together: ALTO
C12_Witness ==
    /\ pc = "returned"
    /\ Len(Profiles) = 2
    /\ Len(AnsweredLawsuits) > 3
    /\ Profiles[2].has_sanctions /\ Profiles[2].has_processes
    /\ Profiles[2].risk_level = "ALTO"

(***************************************************************************)
(* Properties of the loops of analyze_counterparties (SpecDocuments).      *)
(***************************************************************************)
\* no recognized document field of the row is present and non-empty
Undocumented(row) ==
    \A i \in 1..Len(possible_fields) :
        possible_fields[i] \in DOMAIN row => row[possible_fields[i]] \in {None, ""}
DocumentedRows(list) == {i \in 1..Len(list) : ~Undocumented(list[i])}
\* the rows the loops have been through
DoneCashIn ==
    IF pc = "cash_in" THEN SubSeq(top_cash_in, 1, idx)
    ELSE IF pc \in {"cash_out", "returned"} THEN top_cash_in ELSE << >>
DoneCashOut ==
    IF pc = "cash_out" THEN SubSeq(top_cash_out, 1, idx)
    ELSE IF pc = "returned" THEN top_cash_out ELSE << >>
Analysed == pc \in {"cash_in", "cash_out", "returned"}

\* C13: a selected row without a document is skipped: as many lookups are
\* made as there are rows with a document among the rows gone through, every
\* profile is that of a row with a document, the summary counts no more than
\* the lookups, the call does not raise, and a direction all of whose rows
\* lack a document ends with no profile.
C13_Undocumented ==
    /\ pc # "raised"
    /\ Analysed =>
          /\ Len(lookups) = Cardinality(DocumentedRows(DoneCashIn))
                            + Cardinality(DocumentedRows(DoneCashOut))
          /\ \A k \in 1..Len(counterparty_analysis.top_cash_in_analysis) :
                \E i \in DocumentedRows(cash_in_list) :
                    cash_in_list[i].party =
                        counterparty_analysis.top_cash_in_analysis[k].party_name
          /\ \A k \in 1..Len(counterparty_analysis.top_cash_out_analysis) :
                \E i \in DocumentedRows(cash_out_list) :
                    cash_out_list[i].party =
                        counterparty_analysis.top_cash_out_analysis[k].party_name
          /\ counterparty_analysis.summary.total_counterparties_analyzed <= Len(lookups)
          /\ DocumentedRows(cash_in_list) = {} =>
                counterparty_analysis.top_cash_in_analysis = << >>
          /\ DocumentedRows(cash_out_list) = {} =>
                counterparty_analysis.top_cash_out_analysis = << >>

\* three cash-in rows, without the field, with an empty one and with a null
\* one; the cash-out row has a document and is the only one analysed
C13_Witness ==
    /\ pc = "returned"
    /\ BDC_AVAILABLE
    /\ Len(cash_in_list) = 3
    /\ DocumentedRows(cash_in_list) = {}
    /\ "party_document_number" \notin DOMAIN cash_in_list[1]
    /\ "party_document_number" \in DOMAIN cash_in_list[2]
    /\ cash_in_list[2].party_document_number = ""
    /\ "party_document_number" \in DOMAIN cash_in_list[3]
    /\ cash_in_list[3].party_document_number = None
    /\ counterparty_analysis.top_cash_in_analysis = << >>
    /\ Len(counterparty_analysis.top_cash_out_analysis) = 1
    /\ counterparty_analysis.summary.total_counterparties_analyzed = 1
    /\ Len(lookups) = 1

\* the lookup of the row's document fails: the service is not available, the
\* request fails, or the answer is malformed
LookupFails(row) ==
    \/ ~BDC_AVAILABLE
    \/ bdc[sanitize_document(extract_document_from_transaction(row))] \in FailingAnswers

\* every selected row with a document has a profile, an empty one when its
\* lookup failed
Counted(profiles, list) ==
    \A i \in DocumentedRows(top3(list)) :
        \E k \in 1..Len(profiles) :
            /\ profiles[k].party_name = top3(list)[i].party
            /\ LookupFails(top3(list)[i]) =>
                  profiles[k].processes = << >> /\ profiles[k].sanctions = << >>

\* C14: a counterparty with a document whose lookup fails (network error,
\* malformed response, service not available) is still counted in
\* total_counterparties_analyzed, with zero processes and zero sanctions, and
\* the call goes on with the remaining counterparties without raising.
C14_FailedLookupCounted ==
    /\ pc # "raised"
    /\ pc = "returned" =>
          /\ Counted(counterparty_analysis.top_cash_in_analysis, cash_in_list)
          /\ Counted(counterparty_analysis.top_cash_out_analysis, cash_out_list)
          /\ counterparty_analysis.summary.total_counterparties_analyzed =
                Cardinality(DocumentedRows(top3(cash_in_list)))
                + Cardinality(DocumentedRows(top3(cash_out_list)))

\* what the code does with a failed lookup: a failed request is counted with
\* an empty analysis, a malformed answer is not counted, and without the
\* service nothing is counted; in no case does the call raise
FailedLookups ==
    /\ pc # "raised"
    /\ pc = "returned" =>
          LET NotMalformed(list) ==
                  {i \in DocumentedRows(top3(list)) :
                      bdc[sanitize_document(extract_document_from_transaction(
                          top3(list)[i]))] # Malformed}
          IN  counterparty_analysis.summary.total_counterparties_analyzed =
                  IF BDC_AVAILABLE
                  THEN Cardinality(NotMalformed(cash_in_list))
                       + Cardinality(NotMalformed(cash_out_list))
                  ELSE 0

\* C15: the summary counts the profiles: total_counterparties_analyzed is the
\* number of profiles of the two directions (at most 6),
\* counterparties_with_processes and counterparties_with_sanctions the number
\* of profiles with has_processes, has_sanctions true, and
\* high_risk_counterparties the number of profiles of risk_level ALTO or MÉDIO.
C15_Summary ==
    Analysed =>
        LET summary == counterparty_analysis.summary
            K == 1..Len(Profiles)
        IN  /\ summary.total_counterparties_analyzed = Len(Profiles)
            /\ Len(Profiles) <= 6
            /\ summary.counterparties_with_processes =
                  Cardinality({k \in K : Profiles[k].has_processes})
            /\ summary.counterparties_with_sanctions =
                  Cardinality({k \in K : Profiles[k].has_sanctions})
            /\ summary.high_risk_counterparties =
                  Cardinality({k \in K : Profiles[k].risk_level \in {"ALTO", "MÉDIO"}})

\* four profiles, three of risk MÉDIO without sanctions and one of risk ALTO
C15_Witness ==
    /\ pc = "returned"
    /\ Len(counterparty_analysis.top_cash_in_analysis) = 3
    /\ Len(counterparty_analysis.top_cash_out_analysis) = 1
    /\ counterparty_analysis.summary =
          [total_counterparties_analyzed |-> 4,
           counterparties_with_processes |-> 4,
           counterparties_with_sanctions |-> 1,
           high_risk_counterparties |-> 4]
    /\ counterparty_analysis.top_cash_in_analysis[1].risk_level = "MÉDIO"

(***************************************************************************)
(* Properties of merchant_report, cardholder_report and analyze_user       *)
(* (SpecReport).                                                           *)
(***************************************************************************)
\* a table whose query failed or found no row for the user
Faulty(t) == db[t].raised \/ db[t].rows = << >>

\* the rows of pix_concentration of one direction, as the warehouse has them
PixRowsOf(direction) ==
    IF Faulty("pix_concentration") THEN << >>
    ELSE SelectSeq(db["pix_concentration"].rows,
                   LAMBDA row : row.transaction_type = direction)

\* a report of the given kind with every field, each as its source answered
Complete(report, kind) ==
    /\ ReportFields(kind) \subseteq DOMAIN report
    /\ \A local \in ListFields(kind) :
          report[local] = IF Faulty(Queries(kind)[local]) THEN << >> ELSE OneRow
    /\ report[InfoKey(kind)] =
          IF Faulty(Queries(kind)[InfoKey(kind)]) THEN << >> ELSE OneRow[1]
    /\ report.pix_cash_in = PixRowsOf("Cash In")
    /\ report.pix_cash_out = PixRowsOf("Cash Out")
    /\ Faulty("pix_concentration") => \A total \in TotalFields : report[total] = 0
    /\ "summary" \in DOMAIN report.counterparty_analysis

\* a report call ended in an exception
ReportRaised == pc = "raised" /\ report_data = << >>

\* C16: merchant_report and cardholder_report return a complete report for
\* every combination of failing or empty tables: a table that fails or has
\* no rows gives an empty list (an empty mapping for the profile), the other
\* fields are filled, the four PIX totals are 0 when pix_concentration is
\* empty, and no exception is raised.
C16_CompleteReports ==
    /\ ~ReportRaised
    /\ merchant_data # << >> => Complete(merchant_data, "Merchant")
    /\ report_data # << >> => Complete(report_data, user_type)

\* what does hold: the reports that are returned are complete, and a report
\* call raises only out of the ranking of the counterparties, on a row of
\* pix_concentration with a null amount
ReportsComplete ==
    /\ merchant_data # << >> => Complete(merchant_data, "Merchant")
    /\ report_data # << >> => Complete(report_data, user_type)
    /\ ReportRaised =>
          /\ BDC_AVAILABLE
          /\ ~Faulty("pix_concentration")
          /\ \E k \in DOMAIN db["pix_concentration"].rows :
                db["pix_concentration"].rows[k].pix_amount = NullAmount

\* C17: the user is analysed as Merchant exactly when the merchant report
\* has a non-empty profile, and as Cardholder with the report of
\* cardholder_report otherwise; the prompt is composed from that report.
C17_UserType ==
    pc \in {"prompt", "prompted"} =>
        /\ user_type \in {"Merchant", "Cardholder"}
        /\ user_type = "Merchant" <=> merchant_data.merchant_info # << >>
        /\ user_type = "Merchant" =>
              /\ report_data = merchant_data
              /\ Complete(report_data, "Merchant")
        /\ user_type = "Cardholder" =>
              /\ building = "Cardholder"
              /\ "merchant_info" \notin DOMAIN report_data
              /\ Complete(report_data, "Cardholder")
        /\ report_data.user_id = user_id
        /\ pc = "prompted" =>
              /\ prompt[1].user_type = user_type
              /\ prompt[1].user_info = report_data[InfoKey(user_type)]
              /\ prompt[2].block = lower(user_type) \o "_activity"
              /\ \A total \in TotalFields : prompt[2].totals[total] = report_data[total]
              /\ \A field \in DOMAIN prompt[2].fields :
                    field \in DOMAIN report_data
                    /\ prompt[2].fields[field] = report_data[field]

\* a user without a merchant profile and with a cardholder profile, whose
\* prompt was composed
C17_Witness ==
    /\ pc = "prompted"
    /\ user_type = "Cardholder"
    /\ merchant_data.merchant_info = << >>
    /\ report_data.cardholder_info # << >>
    /\ report_data.pix_cash_in # << >>

(***************************************************************************)
(* Properties of generate_prompt (SpecPrompt).                             *)
(***************************************************************************)
\* the ten alert types of the catalogue
Catalogue ==
    {"betting_houses_alert [BR]", "Goverment_Corporate_Cards_Alert", "ch_alert [BR]",
     "pix_merchant_alert [BR]", "international_cards_alert [BR]",
     "bank_slips_alert [BR]", "gafi_alert [US]", "Pep_Pix Alert", "AI Alert",
     "Issuing Transactions Alert"}

AlertBlocks == SelectSeq(prompt, LAMBDA b : b.block = "alert")

\* the prompt ends with the closing instruction and its format line
ClosingLast ==
    /\ prompt # << >>
    /\ prompt[Len(prompt)].block = "closing"
    /\ Contains(prompt[Len(prompt)].format, "Risco de Lavagem de Dinheiro: X/10")
    /\ \A k \in 1..(Len(prompt) - 1) : prompt[k].block # "closing"

\* the optional argument the block of the alert type renders was passed
DataGiven ==
    /\ alert_type = "betting_houses_alert [BR]" => betting_houses.given
    /\ alert_type = "Pep_Pix Alert" => pep_data.given
    /\ alert_type = "AI Alert" => features \notin {None, ""}

\* C18, as claimed: exactly one alert block when alert_type is one of the
\* ten catalogue entries, none when it is not, and the closing instruction
\* with the format line at the end of every prompt.
C18_OneBlock ==
    pc = "prompted" =>
        /\ Len(AlertBlocks) = IF alert_type \in Catalogue THEN 1 ELSE 0
        /\ ClosingLast

\* C18, amended: exactly one alert block, the one of alert_type, when
\* alert_type is a catalogue entry and the optional argument its block
\* renders was passed (betting_houses, pep_data, a non-empty features);
\* none otherwise; the closing instruction with the format line at the end
\* of every prompt.
C18_OneBlockWhenGiven ==
    pc = "prompted" =>
        /\ Len(AlertBlocks) = IF alert_type \in Catalogue /\ DataGiven THEN 1 ELSE 0
        /\ \A k \in DOMAIN AlertBlocks : AlertBlocks[k].alert = alert_type
        /\ AlertBlocks # << >> => prompt[Len(prompt) - 1] = AlertBlocks[1]
        /\ ClosingLast

\* an AI alert with its features: the prompt has the block that renders them
C18_Witness ==
    /\ pc = "prompted"
    /\ alert_type = "AI Alert"
    /\ features \notin {None, ""}
    /\ Len(AlertBlocks) = 1
    /\ AlertBlocks[1].data = features

(***************************************************************************)
(* Properties of run_bot (SpecBot, SpecBotFair).                           *)
(***************************************************************************)
\* the users the loop began with, in the order it did
Started == SelectSeq(events, LAMBDA e : e.step = "start")

\* a call made for the user at position k of the list raised
FailedUser(k) ==
    \E j \in DOMAIN events : events[j].user = k /\ events[j].outcome = "raised"

\* the payload of the user at position k was submitted and the call returned
Submitted(k) ==
    \E j \in DOMAIN events :
        /\ events[j].user = k
        /\ events[j].step = "send_payload"
        /\ events[j].outcome = "returned"

\* each user is begun once and in list order, an exception ends the steps of
\* its own user only and the loop goes on with the next one, and the summary
\* comes after all of them
AttemptedOnce ==
    /\ Len(Started) <= Len(flagged_users)
    /\ \A k \in DOMAIN Started : Started[k].user = k
    /\ \A j \in DOMAIN events :
          events[j].outcome = "raised" =>
              /\ \A m \in (j + 1)..Len(events) : events[m].user > events[j].user
              /\ j < Len(events) =>
                    /\ events[j + 1].step = "start"
                    /\ events[j + 1].user = events[j].user + 1
              /\ j = Len(events) => pc \in {"loop", "summary"} /\ cursor = events[j].user
    /\ pc = "summary" =>
          /\ Len(Started) = Len(flagged_users)
          /\ analyzed_count = Len(flagged_users)

Rank(step) ==
    CASE step = "start" -> 0
      [] step = "fetch_pep_data" -> 1
      [] step = "merchant_report" -> 2
      [] step = "merchant_lookups" -> 3
      [] step = "cardholder_report" -> 4
      [] step = "cardholder_lookups" -> 5
      [] step = "generate_prompt" -> 6
      [] step = "get_gpt_analysis" -> 7
      [] step = "format_export_payload" -> 8
      [] step = "send_payload" -> 9
      [] step = "render" -> 10

\* the event before events[j] is the given step of the same user, returned
Follows(j, step) ==
    /\ j > 1
    /\ events[j - 1].user = events[j].user
    /\ events[j - 1].step = step
    /\ events[j - 1].outcome = "returned"

\* C20: the steps of a user occur in the order report build, counterparty
\* lookups, prompt, completion call, submission; what is submitted is the
\* payload format_export_payload has just returned for that user; a user is
\* submitted at most once; and the first step of the next user comes after
\* the submission of this one has returned or after this one has failed.
C20_StepOrder ==
    \A j \in DOMAIN events :
        LET e == events[j]
        IN  /\ j > 1 /\ events[j - 1].user = e.user =>
                  Rank(e.step) > Rank(events[j - 1].step)
            /\ e.step = "merchant_lookups" => Follows(j, "merchant_report")
            /\ e.step = "cardholder_lookups" => Follows(j, "cardholder_report")
            /\ e.step = "generate_prompt" =>
                  Follows(j, "merchant_lookups") \/ Follows(j, "cardholder_lookups")
            /\ e.step = "get_gpt_analysis" => Follows(j, "generate_prompt")
            /\ e.step = "format_export_payload" => Follows(j, "get_gpt_analysis")
            /\ e.step = "send_payload" =>
                  /\ Follows(j, "format_export_payload")
                  /\ e.outcome = "returned" => e.payload = events[j - 1].payload
                  /\ events[j - 1].payload.user_id = flagged_users[e.user].user_id
                  /\ \A m \in DOMAIN events :
                        events[m].step = "send_payload" /\ events[m].user = e.user
                            => m = j
            /\ j > 1 /\ events[j - 1].user # e.user =>
                  /\ e.step = "start"
                  /\ e.user = events[j - 1].user + 1
                  /\ FailedUser(events[j - 1].user) \/ Submitted(events[j - 1].user)

\* a batch of two users, the first a Merchant and the second a Cardholder,
\* both submitted
C20_Witness ==
    /\ pc = "summary"
    /\ Submitted(1)
    /\ Submitted(2)
    /\ \E j \in DOMAIN events : events[j].user = 2 /\ events[j].step = "cardholder_lookups"
    /\ ~\E j \in DOMAIN events : events[j].user = 1 /\ events[j].step = "cardholder_lookups"

(***************************************************************************)
(* Properties of run_bot: the dry run, the counters, the score shown and   *)
(* the submission.                                                         *)
(***************************************************************************)
\* a payload was handed to requests.post (whether the call returned or not)
Posted == \E j \in DOMAIN events : events[j].step = "send_payload"

\* C21: when the checkbox "Simulação (não enviar para API)" is checked,
\* running the analysis sends no payload to the case-submission API for any
\* user.
C21_DryRunSendsNothing == simulation_mode => ~Posted /\ response = NoResponse

\* the users of the batch whose analysis ran through without an exception
Completed == {k \in 1..Len(flagged_users) : Submitted(k) /\ ~FailedUser(k)}

\* C22: at the end of a batch the analyzed count of the summary equals the
\* number of users whose analysis completed without an exception, which is
\* also the length of the score list, and the suspicious count never
\* exceeds it.
C22_AnalyzedCount ==
    pc = "summary" =>
        /\ analyzed_count = Cardinality(Completed)
        /\ analyzed_count = Len(risk_scores)
        /\ suspicious_count <= analyzed_count

\* what the counters hold at the summary: analyzed_count the users begun,
\* the score list one entry for each user that ran through
CountersAtSummary ==
    pc = "summary" =>
        /\ analyzed_count = Len(flagged_users)
        /\ Len(risk_scores) = Cardinality(Completed)
        /\ suspicious_count <= Len(risk_scores)

(***************************************************************************)
(* Further properties of format_export_payload.                            *)
(***************************************************************************)
\* the text handed to format_export_payload contains the i-th marker of
\* error_indicators, in any letter case
RawMarker(i) == Contains(lower(gpt_analysis), lower(error_indicators[i]))

\* C23: every one of the six markers of error_indicators is effective: a raw
\* text that contains the marker, in any letter case, gets conclusion "" and
\* priority "high" from format_export_payload.
C23_EveryMarkerEffective ==
    pc = "formatted" =>
        \A i \in 1..Len(error_indicators) :
            RawMarker(i) => Decision(first_payload) = <<"", "high">>

\* the five markers without an underscore are effective
OtherMarkersEffective ==
    pc = "formatted" =>
        \A i \in 1..Len(error_indicators) :
            (RawMarker(i) /\ ~Contains(error_indicators[i], "_"))
                => Decision(first_payload) = <<"", "high">>

\* the description the numeric mapping gives a score of 7 or 8: the
\* sanitized text with the medium-high-risk note, unless the text already
\* has the words the note begins with
MediumHighDescription ==
    IF Contains(Clean, "Caso de risco médio-alto") THEN Clean ELSE Clean \o MediumHighNote

Severity(conclusion) ==
    CASE conclusion = "normal" -> 0
      [] conclusion = "suspicious" -> 1
      [] conclusion = "offense" -> 2

\* the texts that differ from the analysis of this state in the numeral of
\* the score line only, which is one higher
SameTextNextScore ==
    LET f == CHOOSE g \in ScoreFormats : g[1] = llm.prefix
    IN  {x[1] \o f[1] \o str(llm.n + 1) \o f[2] \o x[2] :
            x \in {y \in PreTexts \X PostTexts :
                      llm.text = y[1] \o f[1] \o str(llm.n) \o f[2] \o y[2]}}

\* C25: the conclusion is monotone in the extracted score (normal <
\* suspicious < offense): the same text with the next higher score never
\* gets a lower conclusion; and every score above 10 is mapped like 10, to
\* (offense, high), which the "normalizar o caso" override does not change.
C25_Monotone ==
    (pc = "formatted" /\ ~llm.raised /\ llm.n # NoScore /\ ~MarkerPresent) =>
        /\ \A text \in SameTextNextScore :
              LET p == format_export_payload(user_id, strip(text), business_validation)
              IN  Severity(p.conclusion) >= Severity(first_payload.conclusion)
        /\ llm.n >= 10 => Decision(first_payload) = <<"offense", "high">>

\* a score of 12 with the phrase: offense, high
C25_Witness ==
    /\ pc = "formatted"
    /\ llm.n = 12
    /\ PhrasePresent
    /\ ~MarkerPresent
    /\ extract_risk_score(Clean) = 12
    /\ Decision(first_payload) = <<"offense", "high">>

\* C29: the payload format_export_payload returns does not depend on
\* business_validation: the call with the same user_id and description and
\* the other value of business_validation returns the identical payload.
C29_IgnoresBusinessValidation ==
    pc = "formatted" =>
        format_export_payload(user_id, gpt_analysis, ~business_validation) = first_payload

\* the user flagged with business_validation True and a score of 7: the
\* payload (suspicious, mid) is the one the value False gives
C29_Witness ==
    /\ pc = "formatted"
    /\ business_validation
    /\ llm.n = 7
    /\ Decision(first_payload) = <<"suspicious", "mid">>
    /\ format_export_payload(user_id, gpt_analysis, FALSE) = first_payload

\* C26: for a user whose pipeline completes, the risk score run_bot reads
\* again from the description of the payload (shown on the dashboard and
\* added to the score list) equals the score format_export_payload used to
\* choose the conclusion and the priority of that payload.
C26_SameScore ==
    (pc = "scored" /\ ~MarkerPresent) =>
        risk_scores[Len(risk_scores)] = extract_risk_score(Clean)

\* with the first pattern the two readings agree
SameScoreFirstPattern ==
    (pc = "scored" /\ ~MarkerPresent /\ re_search(RiskScorePattern, Clean).found) =>
        risk_scores[Len(risk_scores)] = extract_risk_score(Clean)

(***************************************************************************)
(* The alert types of the flagged-user query and those of generate_prompt. *)
(***************************************************************************)
\* fetch_data.py 59-80, 103: the alert_type values the query assigns to the
\* analysts and to the AI model whose alerts fall in a category of
\* generate_prompt's chain, each with the string the chain compares with
SourceAlertTypes ==
    {[alert_type |-> "Betting_Houses_Alert", category |-> "betting_houses_alert [BR]"],
     [alert_type |-> "Goverment_Corporate_Cards_Alert",
      category |-> "Goverment_Corporate_Cards_Alert"],
     [alert_type |-> "CH Alert", category |-> "ch_alert [BR]"],
     [alert_type |-> "Merchant_Pix Alert", category |-> "pix_merchant_alert [BR]"],
     [alert_type |-> "International_Cards_Alert",
      category |-> "international_cards_alert [BR]"],
     [alert_type |-> "Bank_Slips_Alert", category |-> "bank_slips_alert [BR]"],
     [alert_type |-> "GAFI Alert [US]", category |-> "gafi_alert [US]"],
     [alert_type |-> "Pep_Pix Alert", category |-> "Pep_Pix Alert"],
     [alert_type |-> "AI Alert", category |-> "AI Alert"],
     [alert_type |-> "Issuing Transactions Alert",
      category |-> "Issuing Transactions Alert"]}

\* the optional argument the block of the category renders was passed
GivenFor(category) ==
    /\ category = "betting_houses_alert [BR]" => betting_houses.given
    /\ category = "Pep_Pix Alert" => pep_data.given
    /\ category = "AI Alert" => features \notin {None, ""}

\* C27: every alert_type value the flagged-user query assigns to a category
\* of the catalogue equals the string generate_prompt compares with for that
\* category, so that a user flagged with it gets the block of that category.
C27_SourceNamesMatch ==
    pc = "prompted" =>
        \A s \in SourceAlertTypes :
            (alert_type = s.alert_type /\ GivenFor(s.category)) =>
                /\ s.alert_type = s.category
                /\ Len(AlertBlocks) = 1
                /\ AlertBlocks[1].alert = s.category

\* the values of the query that are spelled as in the chain get their block
SameNamesGetBlock ==
    pc = "prompted" =>
        \A s \in SourceAlertTypes :
            (alert_type = s.alert_type /\ GivenFor(s.category)
             /\ s.alert_type = s.category) =>
                /\ Len(AlertBlocks) = 1
                /\ AlertBlocks[1].alert = s.category

(***************************************************************************)
(* The selection of analyze_counterparties and the documents.              *)
(***************************************************************************)
\* the rows of the 3 highest amounts that have a document
TopDocumented(list) == TopRanked(list) \cap DocumentedRows(list)

\* every profile of the direction is that of a top-ranked row with a document
FromTopDocumented(profiles, list) ==
    /\ Len(profiles) <= Cardinality(TopDocumented(list))
    /\ \A k \in 1..Len(profiles) :
          \E i \in TopDocumented(list) : profiles[k].party_name = list[i].party

\* C28: the 3 rows of highest amount are selected before the documents are
\* extracted: a selected row without a document is not replaced by the next
\* row that has one, so a direction may end with fewer than 3 profiles (or
\* none) although more than 3 rows with a document rank below.
C28_SelectedBeforeDocuments ==
    (pc = "returned" /\ BDC_AVAILABLE) =>
        /\ Len(lookups) = Cardinality(TopDocumented(cash_in_list))
                          + Cardinality(TopDocumented(cash_out_list))
        /\ FromTopDocumented(counterparty_analysis.top_cash_in_analysis, cash_in_list)
        /\ FromTopDocumented(counterparty_analysis.top_cash_out_analysis, cash_out_list)

\* seven cash-in rows: the three of the highest amount have no document,
\* the four below have one; no cash-in row is looked up or analysed
C28_Witness ==
    /\ pc = "returned"
    /\ BDC_AVAILABLE
    /\ Len(cash_in_list) >= 7
    /\ TopDocumented(cash_in_list) = {}
    /\ Cardinality(DocumentedRows(cash_in_list) \ TopRanked(cash_in_list)) > 3
    /\ counterparty_analysis.top_cash_in_analysis = << >>
    /\ Len(lookups) = Len(cash_out_list)
    /\ counterparty_analysis.summary.total_counterparties_analyzed <= 1

(***************************************************************************)
(* The submission and what run_bot makes of it.                            *)
(***************************************************************************)
\* the submissions that returned, and the users displayed, in order
Sent ==
    SelectSeq(events, LAMBDA e : e.step = "send_payload" /\ e.outcome = "returned")
Displayed == SelectSeq(events, LAMBDA e : e.step = "render")

\* C30: run_bot takes a submission for failed only when the POST itself
\* raises: whenever the POST returns, whatever the HTTP status of the
\* response, the score of the user is added to the score list, the
\* suspicious counter is updated and no error is reported for that user.
C30_OnlyRaisedPostFails ==
    LET sent == Sent
        displayed == Displayed
        last == IF events = << >> THEN [step |-> None] ELSE events[Len(events)]
    IN  /\ (last.step = "send_payload" /\ last.outcome = "raised") => response.raised
        /\ pc = "render" => ~response.raised /\ last = sent[Len(sent)]
        /\ \A j \in DOMAIN events :
              events[j].outcome = "raised" =>
                  \A k \in DOMAIN sent : sent[k].user # events[j].user
        /\ Len(sent) = Len(displayed) + (IF pc = "render" THEN 1 ELSE 0)
        /\ Len(risk_scores) = Len(displayed)
        /\ \A j \in DOMAIN displayed : displayed[j].user = sent[j].user
        /\ last.step = "render" =>
              /\ export_payload = sent[Len(sent)].payload
              /\ risk_scores[Len(risk_scores)] = IF llm.n = NoScore THEN 0 ELSE llm.n
        /\ suspicious_count =
              Cardinality({j \in DOMAIN displayed :
                              sent[j].payload.conclusion = "suspicious"})

\* the last user's POST was answered with status 500: the user counts as
\* suspicious with the score 9 and no error was reported
C30_Witness ==
    /\ pc = "summary"
    /\ flagged_users # << >>
    /\ response.status_code = 500
    /\ Submitted(Len(flagged_users))
    /\ ~FailedUser(Len(flagged_users))
    /\ Len(risk_scores) = Len(Sent)
    /\ risk_scores[Len(risk_scores)] = 9
    /\ suspicious_count = Len(Sent)

====
